---- MODULE Spec2Model ----
(***************************************************************************)
(* Tomato Clock background service (TomatoClockService): the timer/phase   *)
(* state machine, its persistence and its recovery on service restart.     *)
(*                                                                         *)
(* Time is kept in milliseconds, as Date.now() gives it.  Every `await`    *)
(* of the source ends an atomic step: the continuation of an async method  *)
(* is a later step of the pending task, and other handlers may run in      *)
(* between.  A chrome.storage call takes effect (or fails) when it is      *)
(* issued; only the continuation is delayed.                               *)
(***************************************************************************)
EXTENDS Integers, Sequences, FiniteSets, TLC

VARIABLES
    timerState,        \* this.timerState
    settings,          \* this.settings
    currentTaskType,   \* this.currentTaskType
    sessionStartTime,  \* this.sessionStartTime: None or Some(ms)
    pc,                \* position of init(): "loadState", "loadSettings", "icon", "ready"
    tasks,             \* async methods suspended at an await, oldest first
    alarm,             \* the 'tomato-timer' alarm: None or Some(ms at which it is due)
    localTimerState,   \* chrome.storage.local 'timerState': None or Some(record)
    syncSettings,      \* chrome.storage.sync 'timerSettings': None or Some(record)
    localSettings,     \* chrome.storage.local 'timerSettings': None or Some(record)
    syncHistory,       \* chrome.storage.sync 'history'
    localHistory,      \* chrome.storage.local 'history'
    now,               \* Date.now()
    advances,          \* number of clock steps taken
    fails,             \* number of failed chrome API calls
    kills,             \* number of times the host has unloaded the worker
    sinceReset,        \* history: break->work transitions since the last reset
    expiry,            \* history: the phase transitions made for the deadline last armed
                       \* by its expiry (alarm, tick, recovery), and whether recovery
                       \* made one of them
    justReset,         \* history: reset was the last command or callback
    port,              \* history: the messages received and the responses sent
    seen,              \* history: what the user and the popup have been shown and
                       \* have asked for
    limits             \* the limits the behaviour runs under; never changed

vars == <<timerState, settings, currentTaskType, sessionStartTime, pc, tasks, alarm,
          localTimerState, syncSettings, localSettings, syncHistory, localHistory, now,
          advances, fails, kills, sinceReset, expiry, justReset, port, seen, limits>>

mem == <<timerState, settings, currentTaskType, sessionStartTime>>
stores == <<localTimerState, syncSettings, syncHistory, localHistory>>
ghost == <<sinceReset, expiry, justReset>>

----------------------------------------------------------------------------
(* Bounds of the model *)

ClockGrain == 500      \* the clock moves in steps of this many ms
MaxEvents == 2         \* clock steps, failing chrome API calls and worker unloads in
                       \* one behaviour
MaxLiveEvents == 3     \* the same, for the specification of expiry alone
MaxCycle == 2          \* completions are not started beyond this cycle
MaxLongCycle == 9      \* the same, for the specification of completions only
MaxTasks == 1          \* async methods suspended at the same time
MaxPayload == 1        \* settings payloads the popup sends
MaxMinutes == 2        \* durations of the settings triples of SpecMove
MaxHistory == 2        \* records the history keeps (1000 in the source) in the
                       \* specification of the history
MaxHistoryCycle == 3   \* completions are not started beyond this cycle there
MaxHistoryEvents == 2  \* failing chrome API calls there
MaxHistoryTasks == 2   \* async methods suspended at the same time there
MaxMessages == 3       \* messages the worker receives in the specification of the
                       \* command surface
MaxSurfaceEvents == 2  \* failing chrome API calls there
MaxSessionHistory == 1 \* records the history keeps in the specification of the
                       \* sessions
MaxSessionEvents == 2  \* failing chrome API calls and worker unloads there
MaxOverlapCycle == 3   \* completions are not started beyond this cycle in the
                       \* specification of overlapping completions
MaxOverlapEvents == 1  \* failing chrome API calls there
MaxOverlapTasks == 2   \* async methods suspended at the same time there
TimerHistory == 0      \* records the history keeps (1000 in the source) in the
                       \* specifications of the timer

(* The limits a specification runs under *)
TimerLimits ==
    [cap |-> MaxCycle, history |-> TimerHistory, events |-> MaxEvents, tasks |-> MaxTasks,
     replies |-> FALSE, messages |-> MaxMessages, invalid |-> FALSE, observers |-> FALSE]
CycleLimits ==
    [cap |-> MaxLongCycle, history |-> TimerHistory, events |-> MaxEvents, tasks |-> MaxTasks,
     replies |-> FALSE, messages |-> MaxMessages, invalid |-> FALSE, observers |-> FALSE]
MoveLimits ==
    [cap |-> MaxLongCycle, history |-> TimerHistory, events |-> 0, tasks |-> MaxTasks,
     replies |-> FALSE, messages |-> MaxMessages, invalid |-> FALSE, observers |-> FALSE]
LiveLimits ==
    [cap |-> MaxCycle, history |-> TimerHistory, events |-> MaxLiveEvents, tasks |-> MaxTasks,
     replies |-> FALSE, messages |-> MaxMessages, invalid |-> FALSE, observers |-> FALSE]
HistoryLimits ==
    [cap |-> MaxHistoryCycle, history |-> MaxHistory, events |-> MaxHistoryEvents,
     tasks |-> MaxHistoryTasks, replies |-> FALSE, messages |-> MaxMessages,
     invalid |-> FALSE, observers |-> FALSE]
SurfaceLimits ==
    [cap |-> MaxCycle, history |-> MaxHistory, events |-> MaxSurfaceEvents,
     tasks |-> MaxTasks, replies |-> TRUE, messages |-> MaxMessages, invalid |-> TRUE,
     observers |-> FALSE]

SessionLimits ==
    [cap |-> MaxCycle, history |-> MaxSessionHistory, events |-> MaxSessionEvents,
     tasks |-> MaxTasks, replies |-> FALSE, messages |-> MaxMessages,
     invalid |-> FALSE, observers |-> TRUE]
OverlapLimits ==
    [cap |-> MaxOverlapCycle, history |-> MaxHistory, events |-> MaxOverlapEvents,
     tasks |-> MaxOverlapTasks, replies |-> FALSE, messages |-> MaxMessages,
     invalid |-> FALSE, observers |-> TRUE]

(* Constants of the program *)

MsPerSec == 1000
SecPerMin == 60
MinPerDay == 1440
DefaultWork == 25
DefaultShortBreak == 5
DefaultLongBreak == 15
LongBreakEvery == 4
MaxWork == 60
MaxShortBreak == 30
MaxLongBreak == 60

----------------------------------------------------------------------------
(* Optional values: null is the empty sequence *)

None == << >>
Some(x) == <<x>>
IsSome(o) == o # << >>
Val(o) == o[1]

Max(a, b) == IF a >= b THEN a ELSE b

----------------------------------------------------------------------------
(* Faulty variants of the program's functions, which the properties below  *)
(* tell from the program's own.                                            *)

(* The long break every third cycle *)
MoveEveryThird(ts, st) ==
    IF ts.currentPhase = "work"
    THEN IF ts.currentCycle % 3 = 0
         THEN [ts EXCEPT !.currentPhase = "long-break",
                         !.timeRemaining = st.longBreakDuration * SecPerMin]
         ELSE [ts EXCEPT !.currentPhase = "short-break",
                         !.timeRemaining = st.shortBreakDuration * SecPerMin]
    ELSE [ts EXCEPT !.currentPhase = "work",
                    !.timeRemaining = st.workDuration * SecPerMin,
                    !.currentCycle = ts.currentCycle + 1]

(* The cycle counted per work phase completed *)
MoveCountsCompleted(ts, st) ==
    IF ts.currentPhase = "work"
    THEN IF ts.currentCycle % LongBreakEvery = 0
         THEN [ts EXCEPT !.currentPhase = "long-break",
                         !.timeRemaining = st.longBreakDuration * SecPerMin,
                         !.currentCycle = ts.currentCycle + 1]
         ELSE [ts EXCEPT !.currentPhase = "short-break",
                         !.timeRemaining = st.shortBreakDuration * SecPerMin,
                         !.currentCycle = ts.currentCycle + 1]
    ELSE [ts EXCEPT !.currentPhase = "work",
                    !.timeRemaining = st.workDuration * SecPerMin]

(* The long break before every fourth work phase instead of after it *)
MoveLongBefore(ts, st) ==
    IF ts.currentPhase = "work"
    THEN IF (ts.currentCycle + 1) % LongBreakEvery = 0
         THEN [ts EXCEPT !.currentPhase = "long-break",
                         !.timeRemaining = st.longBreakDuration * SecPerMin]
         ELSE [ts EXCEPT !.currentPhase = "short-break",
                         !.timeRemaining = st.shortBreakDuration * SecPerMin]
    ELSE [ts EXCEPT !.currentPhase = "work",
                    !.timeRemaining = st.workDuration * SecPerMin,
                    !.currentCycle = ts.currentCycle + 1]

(* No long break at all *)
MoveShortOnly(ts, st) ==
    IF ts.currentPhase = "work"
    THEN [ts EXCEPT !.currentPhase = "short-break",
                    !.timeRemaining = st.shortBreakDuration * SecPerMin]
    ELSE [ts EXCEPT !.currentPhase = "work",
                    !.timeRemaining = st.workDuration * SecPerMin,
                    !.currentCycle = ts.currentCycle + 1]

(* Pause that keeps the deadline *)
PausedKeepsDeadline(ts) == [ts EXCEPT !.isRunning = FALSE]

(* The remaining seconds rounded up *)
TimeLeftCeiling(endTime, t) ==
    IF endTime <= t THEN 0 ELSE (endTime - t + MsPerSec - 1) \div MsPerSec

(* The remaining seconds never below one *)
TimeLeftAtLeastOne(endTime, t) ==
    IF endTime - t < MsPerSec THEN 1 ELSE (endTime - t) \div MsPerSec

(* The full duration always that of the work phase *)
DurationOfWork(ts, st) == st.workDuration * SecPerMin

(* Pause that drops the remaining time *)
PausedClearsRemaining(ts) ==
    [ts EXCEPT !.isRunning = FALSE, !.endTime = << >>, !.timeRemaining = 0]

(* A history that keeps its oldest records and drops the new one when full *)
PushKeepsOldest(h, rec, capacity) ==
    IF Len(h) >= capacity THEN SubSeq(h, 1, capacity) ELSE Append(h, rec)

(* An alarm that is cleared and not created *)
AlarmNotArmed(seconds, t) == << >>

(* A start that always takes the remaining time from the settings *)
StartedRefills(ts, st, t) ==
    LET tr == CASE ts.currentPhase = "work" -> st.workDuration * SecPerMin
                [] ts.currentPhase = "short-break" -> st.shortBreakDuration * SecPerMin
                [] OTHER -> st.longBreakDuration * SecPerMin
    IN  [ts EXCEPT !.timeRemaining = tr, !.isRunning = TRUE,
                   !.endTime = <<t + tr * MsPerSec>>]

(* A merge that keeps the first record and ignores the second *)
SpreadKeepsFirst(a, b) == a

----------------------------------------------------------------------------
(* The program's values and functions *)

DefaultTimerState == [isRunning |-> FALSE, currentPhase |-> "work", currentCycle |-> 1,
                      timeRemaining |-> DefaultWork * SecPerMin, endTime |-> None]

DefaultSettings == [workDuration |-> DefaultWork, shortBreakDuration |-> DefaultShortBreak,
                    longBreakDuration |-> DefaultLongBreak]

(* this.currentTaskType of the constructor: the label of a work session *)
DefaultTaskType == "gongzuo"

(* The settings payloads the popup sends in the model: distinct durations *)
Payloads == {[workDuration |-> d, shortBreakDuration |-> d + 1, longBreakDuration |-> d + 2] :
                d \in 1..MaxPayload}

(* Payloads outside the ranges of validateSettings: a work duration of 0, a
   negative work duration, a short break above its maximum *)
InvalidPayloads ==
    {[workDuration |-> 0, shortBreakDuration |-> DefaultShortBreak,
      longBreakDuration |-> DefaultLongBreak],
     [workDuration |-> -1, shortBreakDuration |-> DefaultShortBreak,
      longBreakDuration |-> DefaultLongBreak],
     [workDuration |-> DefaultWork, shortBreakDuration |-> MaxShortBreak + 1,
      longBreakDuration |-> DefaultLongBreak]}


(* The object spread { ...a, ...b } *)
Spread(a, b) == [k \in DOMAIN a \cup DOMAIN b |-> IF k \in DOMAIN b THEN b[k] ELSE a[k]]

(* Math.max(0, Math.floor((endTime - now) / 1000)) *)
TimeLeft(endTime, t) == Max(0, (endTime - t) \div MsPerSec)

GetCurrentPhaseDuration(ts, st) ==
    CASE ts.currentPhase = "work" -> st.workDuration * SecPerMin
      [] ts.currentPhase = "short-break" -> st.shortBreakDuration * SecPerMin
      [] ts.currentPhase = "long-break" -> st.longBreakDuration * SecPerMin
      [] OTHER -> st.workDuration * SecPerMin

MoveToNextPhase(ts, st) ==
    IF ts.currentPhase = "work"
    THEN IF ts.currentCycle % LongBreakEvery = 0
         THEN [ts EXCEPT !.currentPhase = "long-break",
                         !.timeRemaining = st.longBreakDuration * SecPerMin]
         ELSE [ts EXCEPT !.currentPhase = "short-break",
                         !.timeRemaining = st.shortBreakDuration * SecPerMin]
    ELSE [ts EXCEPT !.currentPhase = "work",
                    !.timeRemaining = st.workDuration * SecPerMin,
                    !.currentCycle = ts.currentCycle + 1]

(* history.push(record); history.slice(-1000) *)
PushLimited(h, rec, capacity) ==
    LET all == Append(h, rec)
    IN  IF Len(all) > capacity
        THEN SubSeq(all, Len(all) - capacity + 1, Len(all))
        ELSE all

(* toTimeString().slice(0, 5): the minute of the day *)
ClockTime(t) == (t \div (SecPerMin * MsPerSec)) % MinPerDay

(* Whether a chrome API call issued now may succeed / fail *)
OutcomesAt(f) == IF advances + f + kills < limits.events THEN {TRUE, FALSE} ELSE {TRUE}
Outcomes == OutcomesAt(fails)
FailedAt(f, ok) == IF ok THEN f ELSE f + 1
Failed(ok) == FailedAt(fails, ok)

Listening == pc \in {"icon", "ready"}

NoExpiry == [n |-> 0, restore |-> FALSE]

(* The messages received and the responses sent (history): how many of each,
   the response sent last, and whether CLEAR_HISTORY has been answered with no
   record written since.  It is kept where limits.replies is set, and there
   the worker receives limits.messages messages. *)
(* What has been shown and asked for (history): the label SET_TASK_TYPE gave
   last, whether startTimer has run in the phase the timer is in, the number
   of records appended to a history since that phase was entered, and the
   data of the TIMER_UPDATE that a completion sent last.  It is kept where
   limits.observers is set. *)
NoSeen == [label |-> << >>, ran |-> FALSE, appended |-> 0, update |-> << >>]

(* SET_TASK_TYPE has given the label *)
Labelled(sn, label) == IF limits.observers THEN [sn EXCEPT !.label = <<label>>] ELSE sn

(* startTimer has run *)
Ran(sn) == IF limits.observers THEN [sn EXCEPT !.ran = TRUE] ELSE sn

(* A phase is entered, by a transition or by resetTimer *)
Entered(sn) == IF limits.observers THEN [sn EXCEPT !.ran = FALSE, !.appended = 0] ELSE sn

(* A record has been appended to a history *)
Recorded(sn) == IF limits.observers THEN [sn EXCEPT !.appended = @ + 1] ELSE sn

(* broadcastUpdate: TIMER_UPDATE with this.timerState *)
Broadcast(sn, ts) == IF limits.observers THEN [sn EXCEPT !.update = <<ts>>] ELSE sn

NoPort == [asked |-> 0, replied |-> 0, last |-> << >>, cleared |-> FALSE]

CanAsk == ~limits.replies \/ port.asked < limits.messages

Ask(p) == IF limits.replies THEN [p EXCEPT !.asked = @ + 1] ELSE p

(* sendResponse(value) to the message of the given type *)
Reply(type, result, value) == [to |-> type, result |-> result, value |-> value]

(* Faulty variant of Answer: the response is sent a second time *)
AnswerTwice(p, r) ==
    IF limits.replies THEN [p EXCEPT !.replied = @ + 2, !.last = <<r>>] ELSE p

Answer(p, r) == IF limits.replies THEN [p EXCEPT !.replied = @ + 1, !.last = <<r>>] ELSE p

Success(type) == Reply(type, "success", << >>)

(* A record has been written to a history *)
Written(p) == IF limits.replies THEN [p EXCEPT !.cleared = FALSE] ELSE p

(* The task types SET_TASK_TYPE carries, the message types outside the
   switch, and the two message types answered by getHistory *)
TaskTypes == {"xuexi"}
UnknownTypes == {"PING"}
HistoryTypes == {"GET_HISTORY", "EXPORT_HISTORY"}

(* The settings payloads the worker is sent *)
Sent == Payloads \cup (IF limits.invalid THEN InvalidPayloads ELSE {})

ReplaceAt(s, i, t) == [s EXCEPT ![i] = t]
RemoveAt(s, i) == SubSeq(s, 1, i - 1) \o SubSeq(s, i + 1, Len(s))

(* getNextPhaseName, as a phase *)
GetNextPhaseName(ts) ==
    IF ts.currentPhase = "work"
    THEN IF ts.currentCycle % LongBreakEvery = 0 THEN "long-break" ELSE "short-break"
    ELSE "work"

(* The message of showNotification: the phase that ended, the phase that begins *)
Notice(ts) == [ended |-> ts.currentPhase, begins |-> GetNextPhaseName(ts)]

(* A suspended onTimerComplete: its caller, the await it is at and whether the awaited
   call succeeds, the record being stored and the history read for it; cur (history):
   it completes the deadline last armed; at (history): the phase and cycle the timer
   was in when it was called and whether startTimer had run in that phase; says
   (history): the message of its notification *)
Task(src, p, ok, rec, h) ==
    [src |-> src, pc |-> p, ok |-> ok, rec |-> rec, h |-> h,
     cur |-> src \in {"tick", "alarm", "restore"},
     at |-> IF limits.observers
            THEN <<[phase |-> timerState.currentPhase, cycle |-> timerState.currentCycle,
                    ran |-> seen.ran]>>
            ELSE << >>,
     says |-> IF limits.observers /\ p = "notify" THEN <<Notice(timerState)>> ELSE << >>]

(* The call goes on to showNotification and is suspended at its              *)
(* `await chrome.notifications.create`                                       *)
Notified(t) ==
    [t EXCEPT !.pc = "notify",
              !.says = IF limits.observers THEN <<Notice(timerState)>> ELSE << >>]

(* chrome.alarms.clear; chrome.alarms.create({delayInMinutes: seconds / 60}) *)
StartAlarm(seconds, t) == Some(t + seconds * MsPerSec)

(* try { await chrome.storage.local.set({timerState}) } catch { log } *)
SaveState(ts, ok) == IF ok THEN Some(ts) ELSE localTimerState

----------------------------------------------------------------------------
(* Init: the constructor has run on a fresh install and init() is at its   *)
(* first await.                                                            *)

Boot(L) ==
    /\ limits = L
    /\ timerState = DefaultTimerState
    /\ settings = DefaultSettings
    /\ currentTaskType = DefaultTaskType
    /\ sessionStartTime = None
    /\ pc = "loadState"
    /\ tasks = << >>
    /\ alarm = None
    /\ localTimerState = None
    /\ syncSettings = None
    /\ localSettings = None
    /\ syncHistory = << >>
    /\ localHistory = << >>
    /\ now = MsPerSec
    /\ advances = 0
    /\ fails = 0
    /\ kills = 0
    /\ sinceReset = 0
    /\ expiry = NoExpiry
    /\ justReset = FALSE
    /\ port = NoPort
    /\ seen = NoSeen

Init == Boot(TimerLimits)

----------------------------------------------------------------------------
(* Faulty variant: a completion that leaves the timer running when it comes *)
(* from SKIP_PHASE                                                          *)
CompleteSkipKeepsRunning(ts0, st, src, f) ==
    /\ timerState' = IF src = "skip" THEN ts0
                     ELSE [ts0 EXCEPT !.isRunning = FALSE, !.endTime = << >>]
    /\ tasks' = Append(tasks, Task(src, "notify", TRUE, << >>, << >>))
    /\ fails' = f
    /\ UNCHANGED sessionStartTime

----------------------------------------------------------------------------
(* onTimerComplete up to its first await.  In a work phase that is the     *)
(* storage.sync.get of recordCompletedPomodoro, otherwise the              *)
(* notifications.create of showNotification.                               *)

OnTimerComplete(ts0, st, src, f) ==
    /\ timerState' = [ts0 EXCEPT !.isRunning = FALSE, !.endTime = None]
    /\ IF ts0.currentPhase = "work"
       THEN \E ok \in OutcomesAt(f) :
              LET start == IF IsSome(sessionStartTime) THEN sessionStartTime
                           ELSE Some(now - st.workDuration * SecPerMin * MsPerSec)
                  rec == [startTime |-> ClockTime(Val(start)),
                          duration |-> st.workDuration, type |-> currentTaskType]
              IN  /\ sessionStartTime' = start
                  /\ tasks' = Append(tasks, Task(src, "syncGet", ok, Some(rec),
                                                 IF ok THEN syncHistory ELSE << >>))
                  /\ fails' = FailedAt(f, ok)
       ELSE /\ tasks' = Append(tasks, Task(src, "notify", TRUE, None, << >>))
            /\ fails' = f
            /\ UNCHANGED sessionStartTime

(* A completion may start: room for its task, and the cycle below the cap *)
CanComplete ==
    /\ Len(tasks) < limits.tasks
    /\ timerState.currentCycle + Len(tasks) < limits.cap

----------------------------------------------------------------------------
(* init() *)

(* await this.loadState() *)
LoadState ==
    /\ UNCHANGED <<limits, localSettings, port, seen>>
    /\ pc = "loadState"
    /\ \E ok \in Outcomes :
         /\ timerState' = IF ok /\ IsSome(localTimerState)
                          THEN Spread(timerState, Val(localTimerState))
                          ELSE timerState
         /\ fails' = Failed(ok)
    /\ pc' = "loadSettings"
    /\ justReset' = FALSE
    /\ UNCHANGED <<settings, currentTaskType, sessionStartTime, tasks, alarm, stores, now,
                   advances, kills, sinceReset, expiry>>

(* await this.loadSettings(); the listeners are added; the timer is restored *)
InitRestore ==
    /\ UNCHANGED <<limits, localSettings, port, seen>>
    /\ pc = "loadSettings"
    /\ pc' = "icon"
    /\ \E ok \in Outcomes :
         LET st == IF ok /\ IsSome(syncSettings)
                   THEN Spread(settings, Val(syncSettings))
                   ELSE settings
             f == Failed(ok)
         IN  /\ settings' = st
             /\ IF timerState.isRunning /\ IsSome(timerState.endTime)
                THEN LET timeLeft == TimeLeft(Val(timerState.endTime), now)
                     IN  IF timeLeft > 0
                         THEN /\ timerState' = [timerState EXCEPT !.timeRemaining = timeLeft]
                              /\ alarm' = StartAlarm(timeLeft, now)
                              /\ fails' = f
                              /\ UNCHANGED <<sessionStartTime, tasks>>
                         ELSE /\ CanComplete
                              /\ OnTimerComplete(timerState, st, "restore", f)
                              /\ UNCHANGED alarm
                ELSE /\ fails' = f
                     /\ UNCHANGED <<timerState, sessionStartTime, tasks, alarm>>
    /\ justReset' = FALSE
    /\ UNCHANGED <<currentTaskType, stores, now, advances, kills, sinceReset, expiry>>

(* await this.updateIcon(); setInterval(updateTimeRemaining, 1000) *)
IconDone ==
    /\ UNCHANGED <<limits, localSettings, port, seen>>
    /\ pc = "icon"
    /\ pc' = "ready"
    /\ UNCHANGED <<mem, tasks, alarm, stores, now, advances, fails, kills, ghost>>

----------------------------------------------------------------------------
(* handleMessage *)

(* The state startTimer leaves: timeRemaining refilled when used up, the   *)
(* deadline set from the clock                                             *)
StartedState(ts, st, t) ==
    LET tr == IF ts.timeRemaining <= 0 THEN GetCurrentPhaseDuration(ts, st)
              ELSE ts.timeRemaining
    IN  [ts EXCEPT !.timeRemaining = tr, !.isRunning = TRUE,
                   !.endTime = Some(t + tr * MsPerSec)]

PausedState(ts) == [ts EXCEPT !.isRunning = FALSE, !.endTime = None]

ResetState(ts, st) ==
    [ts EXCEPT !.isRunning = FALSE, !.currentPhase = "work", !.currentCycle = 1,
               !.timeRemaining = st.workDuration * SecPerMin, !.endTime = None]

(* START_TIMER, with or without message.settings *)
StartTimerCmd ==
    /\ UNCHANGED <<limits, localSettings>>
    /\ seen' = Ran(seen)
    /\ Listening
    /\ CanAsk
    /\ port' = Answer(Ask(port), Success("START_TIMER"))
    /\ \E p \in {None} \cup {Some(x) : x \in Sent}, ok \in Outcomes :
         LET st == IF IsSome(p) THEN Spread(settings, Val(p)) ELSE settings
             ts == StartedState(timerState, st, now)
         IN  /\ settings' = st
             /\ timerState' = ts
             /\ sessionStartTime' = IF timerState.currentPhase = "work" THEN Some(now)
                                    ELSE sessionStartTime
             /\ alarm' = StartAlarm(ts.timeRemaining, now)
             /\ localTimerState' = SaveState(ts, ok)
             /\ fails' = Failed(ok)
             /\ tasks' = [i \in DOMAIN tasks |-> [tasks[i] EXCEPT !.cur = FALSE]]
    /\ justReset' = FALSE
    /\ expiry' = NoExpiry
    /\ UNCHANGED <<currentTaskType, pc, syncSettings, syncHistory, localHistory, now,
                   advances, kills, sinceReset>>

(* PAUSE_TIMER *)
PauseTimerCmd ==
    /\ UNCHANGED <<limits, localSettings, seen>>
    /\ Listening
    /\ CanAsk
    /\ port' = Answer(Ask(port), Success("PAUSE_TIMER"))
    /\ \E ok \in Outcomes :
         /\ timerState' = PausedState(timerState)
         /\ alarm' = None
         /\ localTimerState' = SaveState(timerState', ok)
         /\ fails' = Failed(ok)
         /\ UNCHANGED tasks
    /\ justReset' = FALSE
    /\ UNCHANGED <<settings, currentTaskType, sessionStartTime, pc, syncSettings,
                   syncHistory, localHistory, now, advances, kills, sinceReset,
                   expiry>>

(* SKIP_PHASE *)
SkipPhaseCmd ==
    /\ UNCHANGED <<limits, localSettings, seen>>
    /\ Listening
    /\ CanAsk
    /\ port' = Ask(port)
    /\ CanComplete
    /\ alarm' = None
    /\ OnTimerComplete(timerState, settings, "skip", fails)
    /\ justReset' = FALSE
    /\ UNCHANGED <<settings, currentTaskType, pc, stores, now, advances, kills, sinceReset,
                   expiry>>

(* RESET_TIMER *)
ResetTimerCmd ==
    /\ UNCHANGED <<limits, localSettings>>
    /\ seen' = Entered(seen)
    /\ Listening
    /\ CanAsk
    /\ port' = Answer(Ask(port), Success("RESET_TIMER"))
    /\ \E ok \in Outcomes :
         /\ timerState' = ResetState(timerState, settings)
         /\ alarm' = None
         /\ localTimerState' = SaveState(timerState', ok)
         /\ fails' = Failed(ok)
         /\ UNCHANGED tasks
    /\ justReset' = TRUE
    /\ sinceReset' = 0
    /\ UNCHANGED <<settings, currentTaskType, sessionStartTime, pc, syncSettings,
                   syncHistory, localHistory, now, advances, kills, expiry>>

(* UPDATE_SETTINGS *)
UpdateSettingsCmd ==
    /\ UNCHANGED <<limits, localSettings, seen>>
    /\ Listening
    /\ CanAsk
    /\ port' = Answer(Ask(port), Success("UPDATE_SETTINGS"))
    /\ \E p \in Sent, ok \in Outcomes :
         /\ settings' = Spread(settings, p)
         /\ syncSettings' = IF ok THEN Some(settings') ELSE syncSettings
         /\ fails' = Failed(ok)
         /\ UNCHANGED tasks
    /\ justReset' = FALSE
    /\ UNCHANGED <<timerState, currentTaskType, sessionStartTime, pc, alarm,
                   localTimerState, syncHistory, localHistory, now, advances, kills,
                   sinceReset, expiry>>

(* GET_TIMER_STATE *)
GetTimerStateCmd ==
    /\ UNCHANGED <<limits, localSettings, seen>>
    /\ Listening
    /\ CanAsk
    /\ port' = Answer(Ask(port), Reply("GET_TIMER_STATE", "state", timerState))
    /\ justReset' = FALSE
    /\ UNCHANGED <<mem, pc, tasks, alarm, stores, now, advances, fails, kills, sinceReset,
                   expiry>>

(* SET_TASK_TYPE: message.taskType || the default *)
SetTaskTypeCmd ==
    /\ UNCHANGED <<limits, localSettings>>
    /\ Listening
    /\ CanAsk
    /\ \E t \in {None} \cup {Some(x) : x \in TaskTypes} :
         currentTaskType' = IF IsSome(t) THEN Val(t) ELSE DefaultTaskType
    /\ seen' = Labelled(seen, currentTaskType')
    /\ port' = Answer(Ask(port), Success("SET_TASK_TYPE"))
    /\ justReset' = FALSE
    /\ UNCHANGED <<timerState, settings, sessionStartTime, pc, tasks, alarm, stores, now,
                   advances, fails, kills, sinceReset, expiry>>

(* The default branch of the switch *)
UnknownCmd ==
    /\ UNCHANGED <<limits, localSettings, seen>>
    /\ Listening
    /\ CanAsk
    /\ \E type \in UnknownTypes : port' = Answer(Ask(port), Reply(type, "error", << >>))
    /\ justReset' = FALSE
    /\ UNCHANGED <<mem, pc, tasks, alarm, stores, now, advances, fails, kills, sinceReset,
                   expiry>>

(* GET_HISTORY and EXPORT_HISTORY: getHistory up to its first await,        *)
(* chrome.storage.sync.get                                                   *)
GetHistoryCmd ==
    /\ UNCHANGED <<limits, localSettings, seen>>
    /\ Listening
    /\ CanAsk
    /\ Len(tasks) < limits.tasks
    /\ \E type \in HistoryTypes, ok \in Outcomes :
         /\ tasks' = Append(tasks, Task(type, "histSync", ok, None,
                                        IF ok THEN syncHistory ELSE << >>))
         /\ fails' = Failed(ok)
    /\ port' = Ask(port)
    /\ justReset' = FALSE
    /\ UNCHANGED <<mem, pc, alarm, stores, now, advances, kills, sinceReset, expiry>>

(* sendResponse({history}) or sendResponse({data}) *)
HistoryReply(t, h) ==
    Reply(t.src, IF t.src = "GET_HISTORY" THEN "history" ELSE "data", h)

(* getHistory after `await chrome.storage.sync.get(['history'])` *)
AfterHistSync(i) ==
    /\ UNCHANGED <<limits, localSettings, seen>>
    /\ i \in DOMAIN tasks
    /\ tasks[i].pc = "histSync"
    /\ LET t == tasks[i]
       IN  IF ~t.ok
           THEN /\ port' = Answer(port, HistoryReply(t, << >>))
                /\ tasks' = RemoveAt(tasks, i)
                /\ UNCHANGED fails
           ELSE IF t.h # << >>
           THEN /\ port' = Answer(port, HistoryReply(t, t.h))
                /\ tasks' = RemoveAt(tasks, i)
                /\ UNCHANGED fails
           ELSE \E ok \in Outcomes :
                  /\ tasks' = ReplaceAt(tasks, i,
                                        [t EXCEPT !.pc = "histLocal", !.ok = ok,
                                                  !.h = IF ok THEN localHistory ELSE << >>])
                  /\ fails' = Failed(ok)
                  /\ UNCHANGED port
    /\ UNCHANGED <<mem, pc, alarm, stores, now, advances, kills, ghost>>

(* getHistory after `await chrome.storage.local.get(['history'])` *)
AfterHistLocal(i) ==
    /\ UNCHANGED <<limits, localSettings, seen>>
    /\ i \in DOMAIN tasks
    /\ tasks[i].pc = "histLocal"
    /\ port' = Answer(port, HistoryReply(tasks[i], IF tasks[i].ok THEN tasks[i].h ELSE << >>))
    /\ tasks' = RemoveAt(tasks, i)
    /\ UNCHANGED <<mem, pc, alarm, stores, now, advances, fails, kills, ghost>>

(* CLEAR_HISTORY: clearHistory up to its first await,                       *)
(* chrome.storage.sync.remove                                                *)
ClearHistoryCmd ==
    /\ UNCHANGED <<limits, localSettings, seen>>
    /\ Listening
    /\ CanAsk
    /\ Len(tasks) < limits.tasks
    /\ \E ok \in Outcomes :
         /\ syncHistory' = IF ok THEN << >> ELSE syncHistory
         /\ tasks' = Append(tasks, Task("CLEAR_HISTORY", "clearSync", ok, None, << >>))
         /\ fails' = Failed(ok)
    /\ port' = Ask(port)
    /\ justReset' = FALSE
    /\ UNCHANGED <<mem, pc, alarm, localTimerState, syncSettings, localHistory, now,
                   advances, kills, sinceReset, expiry>>

(* CLEAR_HISTORY is answered {success: true} *)
Cleared(p) ==
    IF limits.replies
    THEN [Answer(p, Success("CLEAR_HISTORY")) EXCEPT !.cleared = TRUE]
    ELSE p

(* clearHistory after `await chrome.storage.sync.remove(['history'])`: the  *)
(* local removal is issued, or the catch block logs                          *)
AfterClearSync(i) ==
    /\ UNCHANGED <<limits, localSettings, seen>>
    /\ i \in DOMAIN tasks
    /\ tasks[i].pc = "clearSync"
    /\ LET t == tasks[i]
       IN  IF t.ok
           THEN \E ok \in Outcomes :
                  /\ localHistory' = IF ok THEN << >> ELSE localHistory
                  /\ tasks' = ReplaceAt(tasks, i, [t EXCEPT !.pc = "clearLocal", !.ok = ok])
                  /\ fails' = Failed(ok)
                  /\ UNCHANGED port
           ELSE /\ port' = Cleared(port)
                /\ tasks' = RemoveAt(tasks, i)
                /\ UNCHANGED <<fails, localHistory>>
    /\ UNCHANGED <<mem, pc, alarm, localTimerState, syncSettings, syncHistory, now,
                   advances, kills, ghost>>

(* clearHistory after `await chrome.storage.local.remove(['history'])` *)
AfterClearLocal(i) ==
    /\ UNCHANGED <<limits, localSettings, seen>>
    /\ i \in DOMAIN tasks
    /\ tasks[i].pc = "clearLocal"
    /\ port' = Cleared(port)
    /\ tasks' = RemoveAt(tasks, i)
    /\ UNCHANGED <<mem, pc, alarm, stores, now, advances, fails, kills, ghost>>

----------------------------------------------------------------------------
(* Callbacks *)

(* chrome.alarms.onAlarm: the alarm is due and its listener is installed *)
AlarmFire ==
    /\ UNCHANGED <<limits, localSettings, port, seen>>
    /\ Listening
    /\ IsSome(alarm)
    /\ now >= Val(alarm)
    /\ CanComplete
    /\ alarm' = None
    /\ OnTimerComplete(timerState, settings, "alarm", fails)
    /\ justReset' = FALSE
    /\ UNCHANGED <<settings, currentTaskType, pc, stores, now, advances, kills, sinceReset,
                   expiry>>

(* setInterval: updateTimeRemaining *)
Tick ==
    /\ UNCHANGED <<limits, localSettings, port, seen>>
    /\ pc = "ready"
    /\ justReset' = FALSE
    /\ IF /\ timerState.isRunning
          /\ IsSome(timerState.endTime)
          /\ TimeLeft(Val(timerState.endTime), now) # timerState.timeRemaining
       THEN LET timeLeft == TimeLeft(Val(timerState.endTime), now)
                ts == [timerState EXCEPT !.timeRemaining = timeLeft]
            IN  IF timeLeft <= 0
                THEN /\ CanComplete
                     /\ OnTimerComplete(ts, settings, "tick", fails)
                ELSE /\ timerState' = ts
                     /\ UNCHANGED <<sessionStartTime, tasks, fails>>
       ELSE UNCHANGED <<timerState, sessionStartTime, tasks, fails>>
    /\ UNCHANGED <<settings, currentTaskType, pc, alarm, stores, now, advances, kills,
                   sinceReset, expiry>>

----------------------------------------------------------------------------
(* Continuations of the suspended async methods *)

(* Faulty variant: a catch block that only logs, without the local store *)
CatchOnlyLogs(i, t) ==
    /\ tasks' = ReplaceAt(tasks, i, Notified(t))
    /\ sessionStartTime' = << >>
    /\ UNCHANGED <<fails, syncHistory, localHistory>>

(* The catch block of recordCompletedPomodoro: storage.local.get is issued *)
LocalFallback(i, t) ==
    \E ok \in Outcomes :
      /\ tasks' = ReplaceAt(tasks, i, [t EXCEPT !.pc = "localGet", !.ok = ok,
                                                !.h = IF ok THEN localHistory ELSE << >>])
      /\ fails' = Failed(ok)
      /\ UNCHANGED <<sessionStartTime, syncHistory, localHistory>>

(* recordCompletedPomodoro after `await chrome.storage.sync.get(['history'])` *)
AfterSyncGet(i) ==
    /\ UNCHANGED <<limits, localSettings>>
    /\ i \in DOMAIN tasks
    /\ tasks[i].pc = "syncGet"
    /\ LET t == tasks[i]
       IN  IF t.ok
           THEN \E ok \in Outcomes :
                  /\ syncHistory' = IF ok
                                    THEN PushLimited(t.h, Val(t.rec), limits.history)
                                    ELSE syncHistory
                  /\ tasks' = ReplaceAt(tasks, i, [t EXCEPT !.pc = "syncSet", !.ok = ok])
                  /\ fails' = Failed(ok)
                  /\ UNCHANGED <<sessionStartTime, localHistory>>
           ELSE LocalFallback(i, t)
    /\ UNCHANGED <<timerState, settings, currentTaskType, pc, alarm, localTimerState,
                   syncSettings, now, advances, kills, ghost>>
    /\ port' = IF tasks'[i].pc = "syncSet" /\ tasks'[i].ok THEN Written(port) ELSE port
    /\ seen' = IF tasks'[i].pc = "syncSet" /\ tasks'[i].ok THEN Recorded(seen) ELSE seen

(* recordCompletedPomodoro after `await chrome.storage.sync.set({history})` *)
AfterSyncSet(i) ==
    /\ UNCHANGED <<limits, localSettings, port, seen>>
    /\ i \in DOMAIN tasks
    /\ tasks[i].pc = "syncSet"
    /\ LET t == tasks[i]
       IN  IF t.ok
           THEN /\ sessionStartTime' = None
                /\ tasks' = ReplaceAt(tasks, i, Notified(t))
                /\ UNCHANGED <<fails, syncHistory, localHistory>>
           ELSE LocalFallback(i, t)
    /\ UNCHANGED <<timerState, settings, currentTaskType, pc, alarm, localTimerState,
                   syncSettings, now, advances, kills, ghost>>

(* recordCompletedPomodoro after `await chrome.storage.local.get(['history'])` *)
AfterLocalGet(i) ==
    /\ UNCHANGED <<limits, localSettings>>
    /\ i \in DOMAIN tasks
    /\ tasks[i].pc = "localGet"
    /\ LET t == tasks[i]
       IN  IF t.ok
           THEN \E ok \in Outcomes :
                  /\ localHistory' = IF ok
                                     THEN PushLimited(t.h, Val(t.rec), limits.history)
                                     ELSE localHistory
                  /\ tasks' = ReplaceAt(tasks, i, [t EXCEPT !.pc = "localSet", !.ok = ok])
                  /\ fails' = Failed(ok)
                  /\ UNCHANGED <<sessionStartTime, syncHistory>>
           ELSE /\ sessionStartTime' = None
                /\ tasks' = ReplaceAt(tasks, i, Notified(t))
                /\ UNCHANGED <<fails, syncHistory, localHistory>>
    /\ UNCHANGED <<timerState, settings, currentTaskType, pc, alarm, localTimerState,
                   syncSettings, now, advances, kills, ghost>>
    /\ port' = IF tasks'[i].pc = "localSet" /\ tasks'[i].ok THEN Written(port) ELSE port
    /\ seen' = IF tasks'[i].pc = "localSet" /\ tasks'[i].ok THEN Recorded(seen) ELSE seen

(* recordCompletedPomodoro after `await chrome.storage.local.set({history})` *)
AfterLocalSet(i) ==
    /\ UNCHANGED <<limits, localSettings, port, seen>>
    /\ i \in DOMAIN tasks
    /\ tasks[i].pc = "localSet"
    /\ sessionStartTime' = None
    /\ tasks' = ReplaceAt(tasks, i, Notified(tasks[i]))
    /\ UNCHANGED <<timerState, settings, currentTaskType, pc, alarm, stores, now, advances,
                   fails, kills, ghost>>

(* One more transition for the deadline last armed, when t completes that deadline *)
Expired(e, t) ==
    IF t.cur THEN [n |-> e.n + 1, restore |-> e.restore \/ t.src = "restore"] ELSE e

(* onTimerComplete after `await this.showNotification()`: moveToNextPhase, saveState; *)
(* what follows the await of saveState is updateIcon and broadcastUpdate, which are   *)
(* steps of their own where the observers are kept                                    *)
AfterNotify(i) ==
    /\ UNCHANGED <<limits, localSettings>>
    /\ i \in DOMAIN tasks
    /\ tasks[i].pc = "notify"
    /\ port' = IF tasks[i].src = "skip" /\ ~limits.observers
               THEN Answer(port, Success("SKIP_PHASE")) ELSE port
    /\ seen' = Entered(seen)
    /\ timerState' = MoveToNextPhase(timerState, settings)
    /\ \E ok \in Outcomes :
         /\ localTimerState' = SaveState(timerState', ok)
         /\ fails' = Failed(ok)
         /\ tasks' = IF limits.observers
                     THEN ReplaceAt(tasks, i, [tasks[i] EXCEPT !.pc = "saveState", !.ok = ok])
                     ELSE RemoveAt(tasks, i)
    /\ sinceReset' = IF timerState.currentPhase # "work" /\ timerState'.currentPhase = "work"
                      THEN sinceReset + 1 ELSE sinceReset
    /\ expiry' = Expired(expiry, tasks[i])
    /\ UNCHANGED <<settings, currentTaskType, sessionStartTime, pc, alarm, syncSettings,
                   syncHistory, localHistory, now, advances, kills, justReset>>

(* onTimerComplete after `await this.saveState()`: updateIcon *)
AfterSaveState(i) ==
    /\ UNCHANGED <<limits, localSettings, port, seen>>
    /\ i \in DOMAIN tasks
    /\ tasks[i].pc = "saveState"
    /\ tasks' = ReplaceAt(tasks, i, [tasks[i] EXCEPT !.pc = "updateIcon", !.ok = TRUE])
    /\ UNCHANGED <<mem, pc, alarm, stores, now, advances, fails, kills, ghost>>

(* onTimerComplete after `await this.updateIcon()`: broadcastUpdate; the    *)
(* call returns, to handleMessage when SKIP_PHASE made it                   *)
AfterUpdateIcon(i) ==
    /\ UNCHANGED <<limits, localSettings>>
    /\ i \in DOMAIN tasks
    /\ tasks[i].pc = "updateIcon"
    /\ seen' = Broadcast(seen, timerState)
    /\ port' = IF tasks[i].src = "skip" THEN Answer(port, Success("SKIP_PHASE")) ELSE port
    /\ tasks' = RemoveAt(tasks, i)
    /\ UNCHANGED <<mem, pc, alarm, stores, now, advances, fails, kills, ghost>>

----------------------------------------------------------------------------
(* The environment *)

(* The instants the clock may jump to: each deadline, and one grain before it *)
Deadlines ==
    (IF IsSome(timerState.endTime) THEN {Val(timerState.endTime)} ELSE {})
    \cup (IF IsSome(alarm) THEN {Val(alarm)} ELSE {})
    \cup (IF IsSome(localTimerState) /\ IsSome(Val(localTimerState).endTime)
          THEN {Val(Val(localTimerState).endTime)} ELSE {})

AdvanceClock ==
    /\ UNCHANGED <<limits, localSettings, port, seen>>
    /\ advances + fails + kills < limits.events
    /\ \E t \in {now + ClockGrain} \cup Deadlines \cup {d - ClockGrain : d \in Deadlines} :
         /\ t > now
         /\ now' = t
    /\ advances' = advances + 1
    /\ UNCHANGED <<mem, pc, tasks, alarm, stores, fails, kills, ghost>>

(* The host unloads the worker; when it is started again the constructor   *)
(* has run and init() is at its first await.  The armed alarm may be lost. *)
Kill ==
    /\ UNCHANGED <<limits, localSettings, port, seen>>
    /\ advances + fails + kills < limits.events
    /\ kills' = kills + 1
    /\ timerState' = DefaultTimerState
    /\ settings' = DefaultSettings
    /\ currentTaskType' = DefaultTaskType
    /\ sessionStartTime' = None
    /\ pc' = "loadState"
    /\ tasks' = << >>
    /\ \E keep \in BOOLEAN : alarm' = IF keep THEN alarm ELSE None
    /\ justReset' = FALSE
    /\ expiry' = NoExpiry
    /\ UNCHANGED <<stores, now, advances, fails, sinceReset>>

----------------------------------------------------------------------------

Steps ==
    \/ LoadState
    \/ InitRestore
    \/ IconDone
    \/ StartTimerCmd
    \/ SkipPhaseCmd
    \/ AlarmFire
    \/ Tick
    \/ \E i \in 1..MaxTasks : AfterSyncGet(i)
    \/ \E i \in 1..MaxTasks : AfterSyncSet(i)
    \/ \E i \in 1..MaxTasks : AfterLocalGet(i)
    \/ \E i \in 1..MaxTasks : AfterLocalSet(i)
    \/ \E i \in 1..MaxTasks : AfterNotify(i)
    \/ AdvanceClock

Next ==
    \/ Steps
    \/ PauseTimerCmd
    \/ ResetTimerCmd
    \/ UpdateSettingsCmd
    \/ Kill

Spec == Init /\ [][Next]_vars

----------------------------------------------------------------------------
(* Completions only, from the reset state: no pause, reset, settings       *)
(* change or unload                                                        *)

InitCycle == Boot(CycleLimits)

NextCycle == Steps

SpecCycle == InitCycle /\ [][NextCycle]_vars

----------------------------------------------------------------------------
(* The transition rule alone: onTimerComplete (by SKIP_PHASE) applied to    *)
(* every phase, cycle and settings triple of a bounded set.  A long break   *)
(* is only ever entered in a cycle that is a multiple of four, a short      *)
(* break in the other cycles.                                               *)

Minutes == 1..MaxMinutes

SettingsTriples ==
    {[workDuration |-> w, shortBreakDuration |-> sb, longBreakDuration |-> lb] :
        w \in Minutes, sb \in Minutes, lb \in Minutes}

PhaseOfCycle(c) ==
    {"work"} \cup (IF c % LongBreakEvery = 0 THEN {"long-break"} ELSE {"short-break"})

InitMove ==
    /\ limits = MoveLimits
    /\ settings \in SettingsTriples
    /\ \E c \in 1..MaxLongCycle : \E ph \in PhaseOfCycle(c) :
         timerState = [isRunning |-> FALSE, currentPhase |-> ph, currentCycle |-> c,
                       timeRemaining |-> GetCurrentPhaseDuration([currentPhase |-> ph],
                                                                 settings),
                       endTime |-> None]
    /\ currentTaskType = DefaultTaskType
    /\ sessionStartTime = None
    /\ pc = "ready"
    /\ tasks = << >>
    /\ alarm = None
    /\ localTimerState = None
    /\ syncSettings = None
    /\ localSettings = None
    /\ syncHistory = << >>
    /\ localHistory = << >>
    /\ now = MsPerSec
    /\ advances = 0
    /\ fails = 0
    /\ kills = 0
    /\ sinceReset = 0
    /\ expiry = NoExpiry
    /\ justReset = FALSE
    /\ port = NoPort
    /\ seen = NoSeen

NextMove ==
    \/ SkipPhaseCmd
    \/ \E i \in 1..MaxTasks : AfterSyncGet(i)
    \/ \E i \in 1..MaxTasks : AfterSyncSet(i)
    \/ \E i \in 1..MaxTasks : AfterNotify(i)

SpecMove == InitMove /\ [][NextMove]_vars

----------------------------------------------------------------------------
(* Expiry alone: START_TIMER has been handled with the default settings    *)
(* and its write has succeeded; no further command arrives.  The clock      *)
(* moves, the worker is unloaded and started again, chrome API calls fail.  *)
(* While the worker is loaded its init() proceeds, its interval timer       *)
(* ticks, a due alarm is delivered and awaited calls settle.                *)

RunningState == StartedState(DefaultTimerState, DefaultSettings, MsPerSec)

InitLive ==
    /\ limits = LiveLimits
    /\ timerState = RunningState
    /\ settings = DefaultSettings
    /\ currentTaskType = DefaultTaskType
    /\ sessionStartTime = Some(MsPerSec)
    /\ pc = "ready"
    /\ tasks = << >>
    /\ alarm = StartAlarm(RunningState.timeRemaining, MsPerSec)
    /\ localTimerState = Some(RunningState)
    /\ syncSettings = None
    /\ localSettings = None
    /\ syncHistory = << >>
    /\ localHistory = << >>
    /\ now = MsPerSec
    /\ advances = 0
    /\ fails = 0
    /\ kills = 0
    /\ sinceReset = 0
    /\ expiry = NoExpiry
    /\ justReset = FALSE
    /\ port = NoPort
    /\ seen = NoSeen

NextLive ==
    \/ LoadState
    \/ InitRestore
    \/ IconDone
    \/ AlarmFire
    \/ Tick
    \/ \E i \in 1..MaxTasks : AfterSyncGet(i)
    \/ \E i \in 1..MaxTasks : AfterSyncSet(i)
    \/ \E i \in 1..MaxTasks : AfterLocalGet(i)
    \/ \E i \in 1..MaxTasks : AfterLocalSet(i)
    \/ \E i \in 1..MaxTasks : AfterNotify(i)
    \/ AdvanceClock
    \/ Kill

Live ==
    /\ WF_vars(LoadState)
    /\ WF_vars(InitRestore)
    /\ WF_vars(IconDone)
    /\ WF_vars(AlarmFire)
    /\ WF_vars(Tick)
    /\ \A i \in 1..MaxTasks :
         /\ WF_vars(AfterSyncGet(i))
         /\ WF_vars(AfterSyncSet(i))
         /\ WF_vars(AfterLocalGet(i))
         /\ WF_vars(AfterLocalSet(i))
         /\ WF_vars(AfterNotify(i))

SpecLive == InitLive /\ [][NextLive]_vars /\ Live

----------------------------------------------------------------------------
(* The history: the worker is ready, the stores hold histories of earlier  *)
(* sessions, and phases are completed by SKIP_PHASE, with START_TIMER,     *)
(* PAUSE_TIMER and UPDATE_SETTINGS handled in between and up to            *)
(* MaxHistoryTasks calls of onTimerComplete suspended at a time.  Storage  *)
(* calls may fail.  The history keeps MaxHistory records.                  *)

(* Records of earlier sessions, told apart by their start times *)
Earlier(n) == [startTime |-> n, duration |-> DefaultWork, type |-> DefaultTaskType]

(* The histories the stores may hold at the start: full, or one record short *)
Histories == {[i \in 1..n |-> Earlier(i)] : n \in {MaxHistory - 1, MaxHistory}}

InitHistory ==
    /\ limits = HistoryLimits
    /\ timerState = DefaultTimerState
    /\ settings = DefaultSettings
    /\ currentTaskType = DefaultTaskType
    /\ sessionStartTime = None
    /\ pc = "ready"
    /\ tasks = << >>
    /\ alarm = None
    /\ localTimerState = None
    /\ syncSettings = None
    /\ localSettings = None
    /\ syncHistory \in Histories
    /\ localHistory = syncHistory
    /\ now = MsPerSec
    /\ advances = 0
    /\ fails = 0
    /\ kills = 0
    /\ sinceReset = 0
    /\ expiry = NoExpiry
    /\ justReset = FALSE
    /\ port = NoPort
    /\ seen = NoSeen

NextHistory ==
    \/ StartTimerCmd
    \/ PauseTimerCmd
    \/ SkipPhaseCmd
    \/ UpdateSettingsCmd
    \/ \E i \in 1..MaxHistoryTasks : AfterSyncGet(i)
    \/ \E i \in 1..MaxHistoryTasks : AfterSyncSet(i)
    \/ \E i \in 1..MaxHistoryTasks : AfterLocalGet(i)
    \/ \E i \in 1..MaxHistoryTasks : AfterLocalSet(i)
    \/ \E i \in 1..MaxHistoryTasks : AfterNotify(i)

SpecHistory == InitHistory /\ [][NextHistory]_vars

----------------------------------------------------------------------------
(* The command surface: the worker is ready, either store holds a history   *)
(* or none, and MaxMessages messages of every type are handled, the         *)
(* settings payloads outside the valid ranges included.  Storage calls may  *)
(* fail.                                                                    *)

SurfaceHistories == {<< >>, <<Earlier(1)>>}

InitSurface ==
    /\ limits = SurfaceLimits
    /\ timerState = DefaultTimerState
    /\ settings = DefaultSettings
    /\ currentTaskType = DefaultTaskType
    /\ sessionStartTime = None
    /\ pc = "ready"
    /\ tasks = << >>
    /\ alarm = None
    /\ localTimerState = None
    /\ syncSettings = None
    /\ localSettings = None
    /\ syncHistory \in SurfaceHistories
    /\ localHistory \in SurfaceHistories
    /\ now = MsPerSec
    /\ advances = 0
    /\ fails = 0
    /\ kills = 0
    /\ sinceReset = 0
    /\ expiry = NoExpiry
    /\ justReset = FALSE
    /\ port = NoPort
    /\ seen = NoSeen

NextSurface ==
    \/ GetTimerStateCmd
    \/ StartTimerCmd
    \/ PauseTimerCmd
    \/ SkipPhaseCmd
    \/ ResetTimerCmd
    \/ UpdateSettingsCmd
    \/ GetHistoryCmd
    \/ ClearHistoryCmd
    \/ SetTaskTypeCmd
    \/ UnknownCmd
    \/ \E i \in 1..MaxTasks : AfterSyncGet(i)
    \/ \E i \in 1..MaxTasks : AfterSyncSet(i)
    \/ \E i \in 1..MaxTasks : AfterLocalGet(i)
    \/ \E i \in 1..MaxTasks : AfterLocalSet(i)
    \/ \E i \in 1..MaxTasks : AfterNotify(i)
    \/ \E i \in 1..MaxTasks : AfterHistSync(i)
    \/ \E i \in 1..MaxTasks : AfterHistLocal(i)
    \/ \E i \in 1..MaxTasks : AfterClearSync(i)
    \/ \E i \in 1..MaxTasks : AfterClearLocal(i)

SpecSurface == InitSurface /\ [][NextSurface]_vars

----------------------------------------------------------------------------
(* The sessions: from a fresh install, phases are completed by SKIP_PHASE   *)
(* with START_TIMER and SET_TASK_TYPE handled in between and              *)
(* one call of onTimerComplete suspended at a time; the worker may be       *)
(* unloaded and storage calls may fail.  What the user and the popup are    *)
(* shown is kept.                                                           *)

InitSession == Boot(SessionLimits)

NextSession ==
    \/ LoadState
    \/ InitRestore
    \/ IconDone
    \/ StartTimerCmd
    \/ SkipPhaseCmd
    \/ SetTaskTypeCmd
    \/ Kill
    \/ \E i \in 1..MaxTasks : AfterSyncGet(i)
    \/ \E i \in 1..MaxTasks : AfterSyncSet(i)
    \/ \E i \in 1..MaxTasks : AfterLocalGet(i)
    \/ \E i \in 1..MaxTasks : AfterLocalSet(i)
    \/ \E i \in 1..MaxTasks : AfterNotify(i)
    \/ \E i \in 1..MaxTasks : AfterSaveState(i)
    \/ \E i \in 1..MaxTasks : AfterUpdateIcon(i)

SpecSession == InitSession /\ [][NextSession]_vars

----------------------------------------------------------------------------
(* Overlapping completions: the worker is ready with empty histories, and   *)
(* START_TIMER and SKIP_PHASE are handled while up to MaxOverlapTasks calls *)
(* of onTimerComplete are suspended.  Storage calls may fail.  What the     *)
(* user and the popup are shown is kept.                                    *)

InitOverlap ==
    /\ limits = OverlapLimits
    /\ timerState = DefaultTimerState
    /\ settings = DefaultSettings
    /\ currentTaskType = DefaultTaskType
    /\ sessionStartTime = None
    /\ pc = "ready"
    /\ tasks = << >>
    /\ alarm = None
    /\ localTimerState = None
    /\ syncSettings = None
    /\ localSettings = None
    /\ syncHistory = << >>
    /\ localHistory = << >>
    /\ now = MsPerSec
    /\ advances = 0
    /\ fails = 0
    /\ kills = 0
    /\ sinceReset = 0
    /\ expiry = NoExpiry
    /\ justReset = FALSE
    /\ port = NoPort
    /\ seen = NoSeen

NextOverlap ==
    \/ StartTimerCmd
    \/ SkipPhaseCmd
    \/ \E i \in 1..MaxOverlapTasks : AfterSyncGet(i)
    \/ \E i \in 1..MaxOverlapTasks : AfterSyncSet(i)
    \/ \E i \in 1..MaxOverlapTasks : AfterLocalGet(i)
    \/ \E i \in 1..MaxOverlapTasks : AfterLocalSet(i)
    \/ \E i \in 1..MaxOverlapTasks : AfterNotify(i)
    \/ \E i \in 1..MaxOverlapTasks : AfterSaveState(i)
    \/ \E i \in 1..MaxOverlapTasks : AfterUpdateIcon(i)

SpecOverlap == InitOverlap /\ [][NextOverlap]_vars

----------------------------------------------------------------------------
(* Properties *)

InWork == timerState.currentPhase = "work"
InBreak == timerState.currentPhase \in {"short-break", "long-break"}

(* A suspended onTimerComplete makes its phase transition in this step *)
Transition == \E i \in 1..MaxTasks : AfterNotify(i)

(* C1: transition rule.  Whenever onTimerComplete makes its transition in phase
   work, the next phase is long-break with timeRemaining = longBreakDuration * 60
   if the cycle is a multiple of 4, and short-break with timeRemaining =
   shortBreakDuration * 60 otherwise; in short-break or long-break the next
   phase is work with timeRemaining = workDuration * 60.  Checked for every
   cycle up to MaxLongCycle and every settings triple over 1..MaxMinutes
   (SpecMove). *)
C1_TransitionRule ==
    [][Transition =>
         IF timerState.currentPhase = "work"
         THEN IF timerState.currentCycle % 4 = 0
              THEN /\ timerState'.currentPhase = "long-break"
                   /\ timerState'.timeRemaining = settings.longBreakDuration * 60
              ELSE /\ timerState'.currentPhase = "short-break"
                   /\ timerState'.timeRemaining = settings.shortBreakDuration * 60
         ELSE /\ timerState'.currentPhase = "work"
              /\ timerState'.timeRemaining = settings.workDuration * 60]_vars

(* The work phase of cycle 8 has been completed into a long break, and saved *)
C1_Witness ==
    /\ timerState.currentPhase = "long-break"
    /\ timerState.currentCycle = 8
    /\ timerState.timeRemaining = settings.longBreakDuration * 60
    /\ settings.longBreakDuration # settings.shortBreakDuration
    /\ localTimerState = Some(timerState)

----------------------------------------------------------------------------

Cycle == timerState.currentCycle

(* The cycle is one more than the break->work transitions since the last reset *)
CycleCounted == Cycle = 1 + sinceReset

(* What each operation does to the cycle *)
CycleStep ==
    /\ Cycle' >= 1
    /\ Transition => Cycle' = IF InBreak THEN Cycle + 1 ELSE Cycle
    /\ (StartTimerCmd \/ PauseTimerCmd \/ Tick \/ UpdateSettingsCmd) => Cycle' = Cycle
    /\ ResetTimerCmd => Cycle' = 1
    /\ (Cycle' = 1 /\ Cycle # 1) => (ResetTimerCmd \/ Kill)

(* C2 as stated: the cycle is always >= 1, goes up by one on every break->work
   transition, is left alone by every work->break transition, by start, pause,
   the tick and UPDATE_SETTINGS, and is set to 1 only by reset (or by the
   constructor when the worker is started again); hence, whenever the service
   is listening, the cycle is 1 plus the number of break->work transitions
   since the last reset. *)
C2_AsStated == [][CycleStep /\ (Listening => CycleCounted)']_vars

(* C2, amended: the same rules for each operation; the cycle is 1 plus the
   number of break->work transitions since the last reset as long as no chrome
   API call has failed or the worker has never been unloaded: a transition
   whose write of the timer state failed is forgotten when the worker is
   started again. *)
C2_CycleCounting ==
    [][CycleStep /\ ((Listening /\ (fails = 0 \/ kills = 0)) => CycleCounted)']_vars

(* The worker was started again in cycle 2 and has read the cycle back *)
C2_Witness ==
    /\ Listening
    /\ kills = 1
    /\ fails = 0
    /\ Cycle = 2
    /\ sinceReset = 1

(* C3: from the reset state, with completions only (expiry or skip), the
   phases visited are Work(1), ShortBreak, Work(2), ...: the work phase after k
   break->work transitions is in cycle k + 1, and the k-th break entered is a
   long break exactly when k is a multiple of 4 and a short break otherwise
   (SpecCycle). *)
C3_PhaseSequence ==
    /\ InWork => Cycle = sinceReset + 1
    /\ InBreak => /\ (sinceReset + 1) % 4 = 0 => timerState.currentPhase = "long-break"
                  /\ (sinceReset + 1) % 4 # 0 => timerState.currentPhase = "short-break"

(* The eighth break has been entered *)
C3_Witness ==
    /\ timerState.currentPhase = "long-break"
    /\ sinceReset = 7
    /\ tasks = << >>

(* A break->work transition is made in this step *)
EntersWork == Transition /\ InBreak /\ timerState'.currentPhase = "work"

(* C4 as stated: whenever work has just been entered by a break->work
   transition and cycle % 4 = 0 holds in the resulting state, the break left was
   a long break (SpecCycle). *)
C4_AsStated ==
    [][(EntersWork /\ Cycle' % 4 = 0) => timerState.currentPhase = "long-break"]_vars

(* C4, amended: whenever work has just been entered by a break->work
   transition, the break left was a long break exactly when cycle % 4 = 1 holds in
   the resulting state, that is when the cycle completed before the break was a
   multiple of 4 (SpecCycle). *)
C4_LongBreakLeft ==
    [][EntersWork => (timerState.currentPhase = "long-break" <=> Cycle' % 4 = 1)]_vars

(* Work(9) has been entered from the second long break *)
C4_Witness ==
    /\ InWork
    /\ Cycle = 9
    /\ sinceReset = 8

(* C5: in every reachable state, the states with an operation suspended at an
   await included, isRunning holds exactly when endTime is set. *)
C5_RunningIffDeadline == timerState.isRunning <=> IsSome(timerState.endTime)

(* The timer has been started while an onTimerComplete is suspended *)
C5_Witness ==
    /\ tasks # << >>
    /\ timerState.isRunning
    /\ IsSome(timerState.endTime)

(* C6 as stated: for one armed deadline, when both the tick and the alarm
   callback call onTimerComplete, the phase advances once.  expiry.n counts the
   transitions made for the deadline last armed; without a restart they come
   from the tick and the alarm alone. *)
C6_OncePerDeadline == kills = 0 => expiry.n <= 1

(* The tick and then the alarm have each made a transition for one deadline *)
C6_Witness ==
    /\ kills = 0
    /\ expiry.n = 2
    /\ InWork
    /\ Cycle = 2

(* C7 as stated: after a recovery that finds the persisted deadline expired,
   exactly one transition is made for that deadline, counting recovery, a
   still pending alarm and the tick. *)
C7_RecoveryOnce == expiry.restore => expiry.n = 1

(* Recovery and then the alarm kept over the restart have each made a transition *)
C7_Witness ==
    /\ expiry.restore
    /\ expiry.n = 2

(* C8: recovery with a persisted running state whose deadline is more than one
   second ahead sets timeRemaining = floor((endTime - now) / 1000), arms the
   alarm for that many seconds from now, and leaves phase, cycle, isRunning and
   endTime as persisted. *)
C8_RecoveryAhead ==
    [][(/\ pc = "loadSettings"
        /\ pc' = "icon"
        /\ IsSome(localTimerState)
        /\ timerState = Val(localTimerState)
        /\ timerState.isRunning
        /\ Val(timerState.endTime) - now > 1000)
       => LET stored == Val(localTimerState)
              left == (Val(stored.endTime) - now) \div 1000
          IN  /\ timerState' = [stored EXCEPT !.timeRemaining = left]
              /\ alarm' = Some(now + left * 1000)
              /\ tasks' = << >>]_vars

(* The worker has recovered a running timer, some seconds of which had passed *)
C8_Witness ==
    /\ pc = "icon"
    /\ kills >= 1
    /\ tasks = << >>
    /\ timerState.isRunning
    /\ IsSome(localTimerState)
    /\ timerState.endTime = Val(localTimerState).endTime
    /\ timerState.timeRemaining < Val(localTimerState).timeRemaining
    /\ alarm = Some(now + timerState.timeRemaining * 1000)

(* The persisted timer state is running and its deadline has passed *)
StoredDue ==
    /\ IsSome(localTimerState)
    /\ Val(localTimerState).isRunning
    /\ now >= Val(Val(localTimerState).endTime)

(* The timer is running and its deadline has passed: in the loaded worker, or
   in the store while the worker is being started *)
DeadlinePassed ==
    \/ /\ timerState.isRunning
       /\ IsSome(timerState.endTime)
       /\ now >= Val(timerState.endTime)
    \/ /\ pc = "loadState"
       /\ StoredDue

(* The read of the persisted timer state has just failed: the worker goes on
   with the constructor's state *)
ReadLost ==
    /\ pc = "loadSettings"
    /\ StoredDue
    /\ ~timerState.isRunning

(* C9 as stated: whenever the timer is running and its deadline has passed,
   with or without an unload of the worker that drops the alarm, and no
   command intervenes, onTimerComplete eventually makes the phase transition
   for that deadline (SpecLive). *)
C9_AsStated == DeadlinePassed ~> (expiry.n >= 1)

(* C9, amended: whenever the timer is running and its deadline has passed,
   with or without an unload of the worker that drops the alarm, and no
   command intervenes, onTimerComplete eventually makes the phase transition
   for that deadline, unless the read of the persisted timer state fails when
   the worker is started again (SpecLive). *)
C9_NotLost == DeadlinePassed ~> (expiry.n >= 1 \/ ReadLost)

(* The deadline passed, the worker was unloaded and the alarm dropped, and
   recovery has made the transition *)
C9_Witness ==
    /\ kills >= 1
    /\ alarm = None
    /\ expiry.restore
    /\ expiry.n = 1
    /\ timerState.currentPhase = "short-break"

(* C10 as stated: after RESET_TIMER, until the next command or callback, the
   phase is work, the cycle 1, the timer not running, timeRemaining =
   workDuration * 60, endTime unset and the alarm disarmed, also when another
   operation is suspended. *)
C10_ResetHolds ==
    justReset => /\ timerState = [isRunning |-> FALSE, currentPhase |-> "work",
                                  currentCycle |-> 1,
                                  timeRemaining |-> settings.workDuration * 60,
                                  endTime |-> None]
                 /\ alarm = None

(* After the reset, a suspended onTimerComplete has moved the phase on *)
C10_Witness ==
    /\ justReset
    /\ tasks = << >>
    /\ timerState.currentPhase = "short-break"

----------------------------------------------------------------------------

(* C11 as stated: START_TIMER in a state in which the timer is not running,
   followed at once by PAUSE_TIMER (which leaves PausedState of the state it
   finds), leaves timeRemaining at its value before the start. *)
C11_StartPauseKeeps ==
    [][/\ (StartTimerCmd /\ ~timerState.isRunning)
            => PausedState(timerState').timeRemaining = timerState.timeRemaining
       /\ PauseTimerCmd => timerState' = PausedState(timerState)]_vars

(* Start and pause at one instant, while the onTimerComplete called by the tick
   is suspended: timeRemaining, 0 before the start, is a full phase *)
C11_Witness ==
    /\ tasks # << >>
    /\ tasks[1].src = "tick"
    /\ ~timerState.isRunning
    /\ alarm = None
    /\ sessionStartTime = Some(now)
    /\ localTimerState = Some(timerState)
    /\ timerState.timeRemaining = GetCurrentPhaseDuration(timerState, settings)

(* C12: START_TIMER in a state in which the timer is not running: timeRemaining,
   when it is <= 0, is first set to the full duration of the current phase taken
   from the settings (with the settings of the message merged in); then
   isRunning = true, endTime = now + timeRemaining * 1000 and the alarm is
   armed for timeRemaining seconds from now, replacing an earlier one; phase and
   cycle are unchanged. *)
C12_Start ==
    [][(StartTimerCmd /\ ~timerState.isRunning)
         => LET full == CASE timerState.currentPhase = "work"
                               -> settings'.workDuration * 60
                          [] timerState.currentPhase = "short-break"
                               -> settings'.shortBreakDuration * 60
                          [] timerState.currentPhase = "long-break"
                               -> settings'.longBreakDuration * 60
                left == IF timerState.timeRemaining <= 0 THEN full
                        ELSE timerState.timeRemaining
            IN  /\ timerState' = [isRunning |-> TRUE,
                                  currentPhase |-> timerState.currentPhase,
                                  currentCycle |-> timerState.currentCycle,
                                  timeRemaining |-> left,
                                  endTime |-> Some(now + left * 1000)]
                /\ alarm' = Some(now + left * 1000)]_vars

(* The short break has been started again after the tick used it up: it runs
   for its full duration, with the onTimerComplete of the tick suspended *)
C12_Witness ==
    /\ tasks # << >>
    /\ tasks[1].src = "tick"
    /\ timerState.isRunning
    /\ timerState.currentPhase = "short-break"
    /\ timerState.timeRemaining = settings.shortBreakDuration * 60
    /\ timerState.endTime = Some(now + timerState.timeRemaining * 1000)
    /\ alarm = timerState.endTime

----------------------------------------------------------------------------

(* C13: PAUSE_TIMER sets isRunning = false, clears endTime and disarms the
   alarm, and leaves phase, cycle and timeRemaining (the value last written by
   start, the tick or recovery), the settings and the session start as they
   were; on a timer that is not running it leaves the timer state as it is. *)
C13_Pause ==
    [][PauseTimerCmd
         => /\ timerState' = [isRunning |-> FALSE,
                              currentPhase |-> timerState.currentPhase,
                              currentCycle |-> timerState.currentCycle,
                              timeRemaining |-> timerState.timeRemaining,
                              endTime |-> None]
            /\ alarm' = None
            /\ settings' = settings
            /\ sessionStartTime' = sessionStartTime
            /\ ~timerState.isRunning => timerState' = timerState]_vars

(* A running timer that the tick had brought below its full duration has been
   paused, and the paused state written *)
C13_Witness ==
    /\ tasks = << >>
    /\ ~timerState.isRunning
    /\ alarm = None
    /\ timerState.timeRemaining > 0
    /\ timerState.timeRemaining < GetCurrentPhaseDuration(timerState, settings)
    /\ localTimerState = Some(timerState)

(* The state onTimerComplete leaves when it is called: the timer stopped, the
   deadline cleared, and the call suspended at its first await *)
Completing ==
    /\ timerState' = [isRunning |-> FALSE,
                      currentPhase |-> timerState.currentPhase,
                      currentCycle |-> timerState.currentCycle,
                      timeRemaining |-> timerState.timeRemaining,
                      endTime |-> None]
    /\ Len(tasks') = Len(tasks) + 1
    /\ tasks'[Len(tasks')].pc = IF timerState.currentPhase = "work" THEN "syncGet"
                                ELSE "notify"

(* The state the transition of a suspended onTimerComplete leaves *)
Completed ==
    LET work == timerState.currentPhase = "work"
        long == timerState.currentCycle % 4 = 0
    IN  timerState' =
          [isRunning |-> timerState.isRunning,
           endTime |-> timerState.endTime,
           currentPhase |-> IF ~work THEN "work"
                            ELSE IF long THEN "long-break" ELSE "short-break",
           currentCycle |-> IF work THEN timerState.currentCycle
                            ELSE timerState.currentCycle + 1,
           timeRemaining |-> IF ~work THEN settings.workDuration * 60
                             ELSE IF long THEN settings.longBreakDuration * 60
                             ELSE settings.shortBreakDuration * 60]

(* C14: SKIP_PHASE in any state, running or not and with any time remaining,
   disarms the alarm and does what the expiry of the alarm does from the same
   phase and cycle: the timer is stopped and the deadline cleared at once, and
   the transition that follows gives the next phase, the cycle and the full
   duration of the next phase by the one rule, whoever called onTimerComplete. *)
C14_SkipAsExpiry ==
    [][/\ SkipPhaseCmd => (alarm' = None /\ Completing)
       /\ AlarmFire => (alarm' = None /\ Completing)
       /\ \A i \in 1..MaxTasks : AfterNotify(i) => Completed]_vars

(* A work phase just started is being skipped: the alarm is disarmed, the
   timer stopped, and onTimerComplete is suspended *)
C14_Witness ==
    /\ tasks # << >>
    /\ tasks[1].src = "skip"
    /\ sessionStartTime = Some(now)
    /\ advances = 0
    /\ ~timerState.isRunning
    /\ timerState.endTime = None
    /\ alarm = None

----------------------------------------------------------------------------

(* A step of one of the state-changing operations: a command, the alarm's
   expiry, or a tick that completes the phase *)
Mutation ==
    \/ StartTimerCmd
    \/ PauseTimerCmd
    \/ SkipPhaseCmd
    \/ ResetTimerCmd
    \/ AlarmFire
    \/ (Tick /\ Len(tasks') > Len(tasks))

(* C15 as stated: state mutations are serialized, no operation is handled
   while onTimerComplete is suspended at an await, and the transition of a
   suspended onTimerComplete never lands on a running timer, whose endTime
   was computed for the phase that is being left. *)
C15_Serialized ==
    [][/\ Mutation => tasks = << >>
       /\ \A i \in 1..MaxTasks : AfterNotify(i) => ~timerState'.isRunning]_vars

(* The timer runs in a short break with the full break remaining while its
   deadline is the one START_TIMER computed for the work phase *)
C15_Witness ==
    /\ tasks = << >>
    /\ timerState.isRunning
    /\ timerState.currentPhase = "short-break"
    /\ timerState.timeRemaining = settings.shortBreakDuration * 60
    /\ timerState.endTime = Some(now + settings.workDuration * 60 * 1000)
    /\ alarm = timerState.endTime
    /\ settings.workDuration # settings.shortBreakDuration

----------------------------------------------------------------------------

(* The write of the history that a suspended onTimerComplete issues after a
   successful read: to the sync store, or to the local store *)
SyncWrite(i) == AfterSyncGet(i) /\ tasks[i].ok /\ tasks'[i].ok
LocalWrite(i) == AfterLocalGet(i) /\ tasks[i].ok /\ tasks'[i].ok

(* C16 as stated: a record is appended exactly when onTimerComplete runs for a
   work phase, one record per completion when the store works: the stored
   histories change only by the write of a completion that carries a record,
   and such a write adds its record to the history that is stored. *)
C16_OnePerWork ==
    [][/\ <<syncHistory, localHistory>>' # <<syncHistory, localHistory>>
            => \E i \in DOMAIN tasks : IsSome(tasks[i].rec) /\ (SyncWrite(i) \/ LocalWrite(i))
       /\ \A i \in DOMAIN tasks :
            /\ SyncWrite(i) => syncHistory' = PushLimited(syncHistory, Val(tasks[i].rec),
                                                          limits.history)
            /\ LocalWrite(i) => localHistory' = PushLimited(localHistory, Val(tasks[i].rec),
                                                            limits.history)]_vars

(* Two completions of the work phase have both written their record to the
   sync store, which had room for one more, and the store has grown by one *)
C16_Witness ==
    /\ Len(tasks) = 2
    /\ \A i \in 1..2 : tasks[i].pc = "syncSet" /\ tasks[i].ok /\ IsSome(tasks[i].rec)
    /\ tasks[1].h = tasks[2].h
    /\ Len(tasks[1].h) < limits.history
    /\ Len(syncHistory) = Len(tasks[1].h) + 1

----------------------------------------------------------------------------

(* The history a write leaves when it has read h and carries the record r:
   r comes last, after the records of h in their order, without the oldest
   one when h is full *)
Appended(h, r) ==
    IF Len(h) >= limits.history THEN Tail(h) \o <<r>> ELSE h \o <<r>>

(* C17: a stored history never holds more than the capacity; a write appends
   its record to the history it read, and when that history is full exactly
   its oldest record is removed, the others keep their order and the new
   record is the last. *)
C17_Capacity ==
    /\ [](Len(syncHistory) <= limits.history /\ Len(localHistory) <= limits.history)
    /\ [][\A i \in DOMAIN tasks :
            /\ SyncWrite(i) => syncHistory' = Appended(tasks[i].h, Val(tasks[i].rec))
            /\ LocalWrite(i) => localHistory' = Appended(tasks[i].h, Val(tasks[i].rec))]_vars

(* A record has been written to a full sync history of at least two records:
   the oldest is gone, the second is now first and the new record is last *)
C17_Witness ==
    /\ Len(tasks) = 1
    /\ tasks[1].pc = "syncSet"
    /\ tasks[1].ok
    /\ Len(tasks[1].h) = limits.history
    /\ limits.history >= 2
    /\ Len(syncHistory) = limits.history
    /\ syncHistory[1] = tasks[1].h[2]
    /\ syncHistory[Len(syncHistory)] = Val(tasks[1].rec)
    /\ syncHistory[Len(syncHistory)] # tasks[1].h[1]

----------------------------------------------------------------------------

(* No operation is in progress: init() has finished and no onTimerComplete is
   suspended *)
Quiet == pc = "ready" /\ tasks = << >>

(* C18 as stated: the timer state is written after every mutation, the tick's
   and the recovery's update of timeRemaining included, so whenever no
   operation is in progress and no chrome call has failed the stored timer
   state is the one in memory (nothing is stored before the first mutation,
   when the state in memory is the constructor's). *)
C18_PersistedIsMemory ==
    (Quiet /\ fails = 0)
        => \/ localTimerState = Some(timerState)
           \/ localTimerState = None /\ timerState = DefaultTimerState

(* The tick has brought timeRemaining of a running timer below the value
   START_TIMER stored, and the store still holds that value *)
C18_Witness ==
    /\ Quiet
    /\ fails = 0
    /\ kills = 0
    /\ timerState.isRunning
    /\ IsSome(localTimerState)
    /\ Val(localTimerState) = [timerState EXCEPT
                                 !.timeRemaining = Val(localTimerState).timeRemaining]
    /\ timerState.timeRemaining < Val(localTimerState).timeRemaining

----------------------------------------------------------------------------

(* The step's write of the timer state has failed: the failure is counted and
   the stored state is the old one *)
WriteFailed == fails' = fails + 1 /\ localTimerState' = localTimerState

(* C19: a failing write of the timer state neither halts nor alters the timer.
   When the write of START_TIMER, PAUSE_TIMER, RESET_TIMER or of the completion
   that SKIP_PHASE started fails, the state in memory and the alarm are the
   ones the operation gives when its write succeeds, the handler runs to its
   end (the completion is no longer suspended) and the worker keeps listening
   for commands. *)
C19_WriteFailure ==
    [][/\ (StartTimerCmd /\ WriteFailed)
            => LET left == IF timerState.timeRemaining <= 0
                           THEN GetCurrentPhaseDuration(timerState, settings')
                           ELSE timerState.timeRemaining
               IN  /\ timerState' = [isRunning |-> TRUE,
                                     currentPhase |-> timerState.currentPhase,
                                     currentCycle |-> timerState.currentCycle,
                                     timeRemaining |-> left,
                                     endTime |-> Some(now + left * 1000)]
                   /\ alarm' = Some(now + left * 1000)
                   /\ pc' = pc /\ Listening
       /\ (PauseTimerCmd /\ WriteFailed)
            => /\ timerState' = [timerState EXCEPT !.isRunning = FALSE, !.endTime = None]
               /\ alarm' = None
               /\ pc' = pc /\ Listening
       /\ (ResetTimerCmd /\ WriteFailed)
            => /\ timerState' = [isRunning |-> FALSE, currentPhase |-> "work",
                                 currentCycle |-> 1,
                                 timeRemaining |-> settings.workDuration * 60,
                                 endTime |-> None]
               /\ alarm' = None
               /\ pc' = pc /\ Listening
       /\ \A i \in DOMAIN tasks :
            (AfterNotify(i) /\ WriteFailed)
              => /\ Completed
                 /\ alarm' = alarm
                 /\ Len(tasks') = Len(tasks) - 1
                 /\ pc' = pc]_vars

(* The write of START_TIMER has failed on a fresh install: nothing is stored,
   the timer runs, its alarm is armed, and the worker is ready for commands *)
C19_Witness ==
    /\ pc = "ready"
    /\ tasks = << >>
    /\ fails = 1
    /\ kills = 0
    /\ localTimerState = None
    /\ timerState.isRunning
    /\ sessionStartTime = Some(now)
    /\ alarm = timerState.endTime
    /\ IsSome(alarm)

----------------------------------------------------------------------------

(* The sync store has failed the completion i, at the read or at the write *)
SyncFailed(i) ==
    \/ AfterSyncGet(i) /\ ~tasks[i].ok
    \/ AfterSyncSet(i) /\ ~tasks[i].ok

(* The local store has failed the completion i, at the read or at the write *)
LocalFailed(i) ==
    \/ AfterLocalGet(i) /\ ~tasks[i].ok
    \/ AfterLocalSet(i) /\ ~tasks[i].ok

(* C20: when the sync store fails at the read or at the write of the history,
   the record goes to the local store: the local history is read, and the
   write puts the record last in it under the same capacity.  The recording
   ends without the record stored only when the local store has failed too.
   In every case the completion stays suspended until its transition, and the
   transition advances the phase and writes the timer state. *)
C20_Fallback ==
    [][\A i \in DOMAIN tasks :
         /\ SyncFailed(i)
              => /\ tasks'[i].pc = "localGet"
                 /\ tasks'[i].rec = tasks[i].rec
                 /\ tasks'[i].ok => tasks'[i].h = localHistory
                 /\ syncHistory' = syncHistory
         /\ LocalWrite(i)
              => /\ localHistory' = Appended(tasks[i].h, Val(tasks[i].rec))
                 /\ Len(localHistory') <= limits.history
         /\ (tasks[i].pc # "notify" /\ Len(tasks') = Len(tasks) /\ tasks'[i].pc = "notify")
              => \/ AfterSyncSet(i) /\ tasks[i].ok
                 \/ AfterLocalSet(i) /\ tasks[i].ok
                 \/ LocalFailed(i)
         /\ (AfterSyncGet(i) \/ AfterSyncSet(i) \/ AfterLocalGet(i) \/ AfterLocalSet(i))
              => Len(tasks') = Len(tasks)
         /\ AfterNotify(i)
              => /\ Completed
                 /\ fails' = fails => localTimerState' = Some(timerState')]_vars

(* The sync store failed once, the record of the work phase is the last of
   the local history, the sync history is as it was, and the completion has
   advanced the phase and written the timer state *)
C20_Witness ==
    /\ tasks = << >>
    /\ fails = 1
    /\ syncHistory \in Histories
    /\ localHistory # << >>
    /\ localHistory[Len(localHistory)].startTime = ClockTime(MsPerSec)
    /\ timerState.currentPhase = "short-break"
    /\ localTimerState = Some(timerState)

----------------------------------------------------------------------------

(* C21 as stated: the settings have a fallback in the local store.  When the
   sync write of UPDATE_SETTINGS fails the new settings are written to the
   local store, and when init() finds no settings in the sync store, or its
   read fails, it takes the settings of the local store. *)
C21_SettingsFallback ==
    [][/\ (UpdateSettingsCmd /\ fails' = fails + 1)
            => localSettings' = Some(settings')
       /\ (InitRestore /\ IsSome(localSettings)
             /\ (syncSettings = None \/ fails' = fails + 1))
            => settings' = Spread(settings, Val(localSettings))]_vars

(* The sync write of UPDATE_SETTINGS has failed: the new settings are in
   memory and in neither store *)
C21_Witness ==
    /\ pc = "ready"
    /\ fails = 1
    /\ kills = 0
    /\ settings # DefaultSettings
    /\ syncSettings = None
    /\ localSettings = None
    /\ ~timerState.isRunning
    /\ localTimerState = None

----------------------------------------------------------------------------

(* The full duration of the phase of ts under the settings st, in seconds *)
FullDuration(ts, st) ==
    CASE ts.currentPhase = "work" -> st.workDuration * 60
      [] ts.currentPhase = "short-break" -> st.shortBreakDuration * 60
      [] ts.currentPhase = "long-break" -> st.longBreakDuration * 60

(* C23: a settings change does not alter the phase in progress.
   UPDATE_SETTINGS leaves the timer state and the alarm as they are; the
   settings that START_TIMER carries have no part in its result while time
   remains (the deadline and the alarm come from timeRemaining alone).  The
   durations are read only where timeRemaining is set anew: by START_TIMER with
   no time remaining, by RESET_TIMER and by the transition, each with the
   settings of that moment. *)
C23_SettingsChange ==
    [][/\ UpdateSettingsCmd => (timerState' = timerState /\ alarm' = alarm)
       /\ (StartTimerCmd /\ timerState.timeRemaining > 0)
            => /\ timerState' = [isRunning |-> TRUE,
                                 currentPhase |-> timerState.currentPhase,
                                 currentCycle |-> timerState.currentCycle,
                                 timeRemaining |-> timerState.timeRemaining,
                                 endTime |-> Some(now + timerState.timeRemaining * 1000)]
               /\ alarm' = Some(now + timerState.timeRemaining * 1000)
       /\ (StartTimerCmd /\ timerState.timeRemaining <= 0)
            => timerState'.timeRemaining = FullDuration(timerState, settings')
       /\ ResetTimerCmd => timerState'.timeRemaining = settings.workDuration * 60
       /\ \A i \in DOMAIN tasks :
            AfterNotify(i) => timerState'.timeRemaining = FullDuration(timerState', settings)]_vars

(* A work phase runs with the 25 minutes it was started with while the
   settings now give the work phase another duration *)
C23_Witness ==
    /\ timerState.isRunning
    /\ timerState.currentPhase = "work"
    /\ timerState.timeRemaining = DefaultWork * 60
    /\ settings.workDuration # DefaultWork
    /\ timerState.endTime = Some(now + timerState.timeRemaining * 1000)
    /\ alarm = timerState.endTime
    /\ localTimerState = Some(timerState)

----------------------------------------------------------------------------

(* C25 as stated: RESET_TIMER discards the session start; after it no session
   start is set, and a work phase that is skipped right after the reset gets a
   record whose start time is the fallback, now minus the work duration. *)
C25_ResetDiscardsStart ==
    [][/\ ResetTimerCmd => sessionStartTime' = None
       /\ (SkipPhaseCmd /\ justReset /\ timerState.currentPhase = "work")
            => Val(tasks'[Len(tasks')].rec).startTime
                 = ClockTime(now - settings.workDuration * 60 * 1000)]_vars

(* RESET_TIMER was the last command and the session start of the work phase
   started before it is still set *)
C25_Witness ==
    /\ justReset
    /\ tasks = << >>
    /\ IsSome(sessionStartTime)
    /\ timerState = [isRunning |-> FALSE, currentPhase |-> "work", currentCycle |-> 1,
                     timeRemaining |-> settings.workDuration * 60, endTime |-> None]
    /\ alarm = None

----------------------------------------------------------------------------

(* The stored timer state x carries the state in memory over an unload: phase,
   cycle, isRunning and endTime are those in memory, and so is timeRemaining
   when the timer is not running *)
Carries(x) ==
    /\ x.currentPhase = timerState.currentPhase
    /\ x.currentCycle = timerState.currentCycle
    /\ x.isRunning = timerState.isRunning
    /\ x.endTime = timerState.endTime
    /\ ~timerState.isRunning => x.timeRemaining = timerState.timeRemaining

(* C27: the timer state survives an unload of the worker.  Whenever no
   operation is in progress and no chrome call has failed, the stored state
   carries the state in memory (or nothing is stored and the memory holds the
   constructor's state); the worker that is started again loads exactly the
   stored state when its read succeeds; and the restore of a running timer
   whose deadline lies ahead changes nothing but timeRemaining, which it
   computes from endTime. *)
C27_SurvivesUnload ==
    /\ []((Quiet /\ fails = 0)
            => \/ IsSome(localTimerState) /\ Carries(Val(localTimerState))
               \/ localTimerState = None /\ timerState = DefaultTimerState)
    /\ [][/\ (LoadState /\ fails' = fails)
               => timerState' = IF IsSome(localTimerState) THEN Val(localTimerState)
                                ELSE DefaultTimerState
          /\ (InitRestore /\ timerState.isRunning /\ IsSome(timerState.endTime)
                /\ Val(timerState.endTime) - now >= 1000)
               => timerState' = [timerState EXCEPT
                                   !.timeRemaining = (Val(timerState.endTime) - now) \div 1000]
          /\ (InitRestore /\ ~timerState.isRunning) => timerState' = timerState]_vars

(* A timer that the tick had brought below the full duration was paused, the
   worker was unloaded and started again, and loadState has given the paused
   state back *)
C27_Witness ==
    /\ kills = 1
    /\ fails = 0
    /\ pc = "loadSettings"
    /\ IsSome(localTimerState)
    /\ timerState = Val(localTimerState)
    /\ ~timerState.isRunning
    /\ timerState.timeRemaining < GetCurrentPhaseDuration(timerState, DefaultSettings)
    /\ timerState.timeRemaining > 0

----------------------------------------------------------------------------

(* C28 as stated: START_TIMER takes effect only on a timer that is not
   running; on a running timer it does not move endTime, does not arm the
   alarm for another instant and does not overwrite the session start. *)
C28_StartOnlyWhenStopped ==
    [][(StartTimerCmd /\ timerState.isRunning)
         => /\ timerState'.endTime = timerState.endTime
            /\ alarm' = alarm
            /\ sessionStartTime' = sessionStartTime]_vars

----------------------------------------------------------------------------

(* C29 as stated: the tick only reconciles.  On a timer that is not running
   it changes nothing; on a running timer whose deadline is not yet reached
   it sets timeRemaining = max(0, floor((endTime - now) / 1000)) and changes
   nothing else; it calls onTimerComplete only when the deadline has passed;
   and what it writes for one deadline never increases as the clock moves. *)
C29_TickReconciles ==
    [][/\ (Tick /\ ~timerState.isRunning)
            => UNCHANGED <<mem, tasks, alarm, stores>>
       /\ (Tick /\ timerState.isRunning /\ IsSome(timerState.endTime)
             /\ now < Val(timerState.endTime))
            => /\ timerState' = [timerState EXCEPT !.timeRemaining =
                                   Max(0, (Val(timerState.endTime) - now) \div 1000)]
               /\ UNCHANGED <<settings, currentTaskType, sessionStartTime, tasks, alarm,
                              stores>>
       /\ (Tick /\ Len(tasks') > Len(tasks))
            => (IsSome(timerState.endTime) /\ now >= Val(timerState.endTime))
       /\ (timerState.isRunning /\ timerState'.isRunning /\ IsSome(timerState.endTime)
             /\ timerState'.endTime = timerState.endTime)
            => Max(0, (Val(timerState.endTime) - now') \div 1000)
                 <= Max(0, (Val(timerState.endTime) - now) \div 1000)]_vars

(* The tick has completed a phase whose deadline lies ahead: timeRemaining is
   0, onTimerComplete is suspended, and the alarm is still to come *)
C29_Witness ==
    /\ tasks # << >>
    /\ tasks[1].src = "tick"
    /\ ~timerState.isRunning
    /\ timerState.timeRemaining = 0
    /\ IsSome(alarm)
    /\ now < Val(alarm)

----------------------------------------------------------------------------

(* C30 as stated: every onTimerComplete that runs to its end leaves the timer
   stopped at the beginning of the next phase, isRunning = false, endTime
   unset and timeRemaining the full duration of the new phase, and a stopped
   timer starts to run only by START_TIMER (or, when the worker is started
   again, by loading a stored running state). *)
C30_StoppedAfterComplete ==
    [][/\ \A i \in DOMAIN tasks :
            AfterNotify(i)
              => /\ ~timerState'.isRunning
                 /\ timerState'.endTime = None
                 /\ timerState'.timeRemaining = FullDuration(timerState', settings)
       /\ (~timerState.isRunning /\ timerState'.isRunning)
            => (StartTimerCmd \/ LoadState)]_vars

(* Work(2) has just been entered by a completion and the timer runs, with the
   deadline START_TIMER computed for the short break that was being left *)
C30_Witness ==
    /\ tasks = << >>
    /\ timerState.isRunning
    /\ timerState.currentPhase = "work"
    /\ timerState.currentCycle = 2
    /\ timerState.timeRemaining = settings.workDuration * 60
    /\ timerState.endTime = Some(now + settings.shortBreakDuration * 60 * 1000)
    /\ settings.workDuration # settings.shortBreakDuration
    /\ localTimerState = Some(timerState)

(* The suspended calls that were entered from handleMessage and have not    *)
(* yet called sendResponse                                                  *)
MessageSources == {"skip"} \cup HistoryTypes \cup {"CLEAR_HISTORY"}
Unanswered == {i \in DOMAIN tasks : tasks[i].src \in MessageSources}

(* A response is sent in this step *)
Responds == port'.replied > port.replied

(* C22: every message is answered at most once and exactly once when its    *)
(* handler has finished: the messages received are the responses sent plus  *)
(* the handlers still suspended.  A message type outside the switch is      *)
(* answered with an error and changes neither the timer state, the          *)
(* settings, the task type, the alarm nor any store; a type of the switch   *)
(* is never answered with an error.                                         *)
C22_CommandSurface ==
    /\ [](port.asked = port.replied + Cardinality(Unanswered))
    /\ [][Responds =>
            /\ port'.replied = port.replied + 1
            /\ IF port'.last[1].to \in UnknownTypes
               THEN /\ port'.last[1].result = "error"
                    /\ UNCHANGED <<mem, alarm, stores, tasks>>
               ELSE port'.last[1].result # "error"]_vars

(* An unknown message was answered with an error while the timer runs and   *)
(* after two other messages were answered                                   *)
C22_Witness ==
    /\ port.replied = MaxMessages
    /\ port.asked = MaxMessages
    /\ port.last = <<Reply("PING", "error", << >>)>>
    /\ timerState.isRunning

(* The ranges of validateSettings *)
Valid(st) ==
    /\ st.workDuration \in 1..MaxWork
    /\ st.shortBreakDuration \in 1..MaxShortBreak
    /\ st.longBreakDuration \in 1..MaxLongBreak

(* C24: whatever settings payloads START_TIMER and UPDATE_SETTINGS carry,   *)
(* the three durations of the settings stay within 1..60, 1..30 and 1..60   *)
(* minutes, in memory and in the sync store.                                *)
C24_SettingsInRange ==
    /\ Valid(settings)
    /\ IsSome(syncSettings) => Valid(Val(syncSettings))

(* UPDATE_SETTINGS with a payload outside the ranges was answered with      *)
(* success and the payload is the settings                                  *)
C24_Witness ==
    /\ port.last = <<Success("UPDATE_SETTINGS")>>
    /\ settings \in InvalidPayloads
    /\ syncSettings = Some(settings)

(* getHistory as it would return now: the sync list when it is not empty,   *)
(* else the local list                                                      *)
History == IF syncHistory # << >> THEN syncHistory ELSE localHistory

(* C26: once CLEAR_HISTORY has been answered with success and until the     *)
(* next record is written, neither store holds a record, so that            *)
(* GET_HISTORY and EXPORT_HISTORY are answered with the empty list, also    *)
(* when one of the two removals failed.                                     *)
C26_ClearedIsEmpty ==
    /\ port.cleared => History = << >>
    /\ (port.cleared /\ port.last # << >> /\ port.last[1].to \in HistoryTypes)
          => port.last[1].value = << >>

(* CLEAR_HISTORY was answered with success after its sync removal failed,   *)
(* and the GET_HISTORY that follows is answered with the record kept        *)
C26_Witness ==
    /\ port.cleared
    /\ port.last = <<Reply("GET_HISTORY", "history", <<Earlier(1)>>)>>
    /\ syncHistory = <<Earlier(1)>>

----------------------------------------------------------------------------

(* C35: the alarm is armed only while the timer is running: in every state  *)
(* in which init() has finished and no onTimerComplete is suspended, an     *)
(* armed alarm implies isRunning; so after pause, reset, skip and a         *)
(* completion that the tick detected no alarm is armed.                     *)
C35_AlarmOnlyWhileRunning ==
    (pc = "ready" /\ tasks = << >> /\ IsSome(alarm)) => timerState.isRunning

(* The tick has completed the work phase and its onTimerComplete has run to *)
(* its end, without an unload: the timer is stopped in the short break and  *)
(* the alarm of the work phase is still armed                               *)
C35_Witness ==
    /\ pc = "ready"
    /\ tasks = << >>
    /\ kills = 0
    /\ IsSome(alarm)
    /\ now < Val(alarm)
    /\ ~timerState.isRunning
    /\ timerState.currentPhase = "short-break"

----------------------------------------------------------------------------

(* The timer is in the phase and cycle it was in when the suspended         *)
(* onTimerComplete t was called                                             *)
Shows(t) ==
    /\ IsSome(t.at)
    /\ timerState.currentPhase = Val(t.at).phase
    /\ timerState.currentCycle = Val(t.at).cycle

(* The state ts is of a phase that comes after the phase the suspended      *)
(* onTimerComplete t was called in                                          *)
Follows(ts, t) ==
    \/ ts.currentCycle > Val(t.at).cycle
    \/ /\ ts.currentCycle = Val(t.at).cycle
       /\ Val(t.at).phase = "work"
       /\ ts.currentPhase # "work"

(* C31: the order inside one completion.  The record is written to a        *)
(* history while the timer state still shows the phase the completion was   *)
(* called for; the transition comes after that and leaves that phase; the   *)
(* write of the timer state is attempted with the state the transition      *)
(* gave; and the TIMER_UPDATE of the completion is sent after that, with a  *)
(* state of a phase that follows the completed one.                         *)
C31_CompletionOrder ==
    [][\A i \in DOMAIN tasks :
         /\ (SyncWrite(i) \/ LocalWrite(i)) => Shows(tasks[i])
         /\ AfterNotify(i) =>
               /\ Shows(tasks[i])
               /\ timerState' = MoveToNextPhase(timerState, settings)
               /\ localTimerState' \in {Some(timerState'), localTimerState}
         /\ AfterUpdateIcon(i) =>
               /\ seen'.update = Some(timerState)
               /\ Follows(timerState, tasks[i])]_vars

(* A completion called in the work phase has written its record to the      *)
(* sync store after another completion has made the transition to the       *)
(* short break                                                              *)
C31_Witness ==
    \E i \in DOMAIN tasks :
       /\ tasks[i].pc = "syncSet"
       /\ tasks[i].ok
       /\ Val(tasks[i].at).phase = "work"
       /\ timerState.currentPhase = "short-break"
       /\ syncHistory = Append(tasks[i].h, Val(tasks[i].rec))

----------------------------------------------------------------------------

(* onTimerComplete is called in this step, for a work phase: the call       *)
(* suspended last carries the record it built                               *)
Builds ==
    /\ Len(tasks') = Len(tasks) + 1
    /\ IsSome(tasks'[Len(tasks')].rec)

(* C32: the record built at the completion of a work phase has the start    *)
(* time of the session-start marker, or of now minus workDuration when no   *)
(* marker is set; the workDuration of the settings at that moment; and as   *)
(* its type the label SET_TASK_TYPE gave last, the default label when it    *)
(* gave none.  The marker is cleared when recordCompletedPomodoro is done.  *)
C32_RecordContents ==
    [][/\ Builds =>
            LET rec == Val(tasks'[Len(tasks')].rec)
            IN  /\ rec.startTime =
                      IF IsSome(sessionStartTime) THEN ClockTime(Val(sessionStartTime))
                      ELSE ClockTime(now - settings.workDuration * SecPerMin * MsPerSec)
                /\ rec.duration = settings.workDuration
                /\ rec.type = IF IsSome(seen.label) THEN Val(seen.label)
                              ELSE DefaultTaskType
       /\ \A i \in DOMAIN tasks :
            (tasks[i].pc # "notify" /\ i \in DOMAIN tasks' /\ tasks'[i].pc = "notify")
                => sessionStartTime' = None]_vars

(* After SET_TASK_TYPE gave a label the worker was unloaded and started     *)
(* again, and the record of the work phase that is then completed carries   *)
(* the default label                                                        *)
C32_Witness ==
    /\ kills > 0
    /\ seen.label = Some("xuexi")
    /\ tasks # << >>
    /\ IsSome(tasks[1].rec)
    /\ Val(tasks[1].rec).type = DefaultTaskType

----------------------------------------------------------------------------

(* C38: the type of a record is the label the last SET_TASK_TYPE gave       *)
(* before the record was built, also when the worker was unloaded and       *)
(* started again in between.                                                *)
C38_LabelSurvives ==
    [][(Builds /\ IsSome(seen.label))
          => Val(tasks'[Len(tasks')].rec).type = Val(seen.label)]_vars

(* SET_TASK_TYPE gave a label, the worker was unloaded and started again,   *)
(* and the completion that is suspended now has written a record with the   *)
(* default label to the sync store                                          *)
C38_Witness ==
    /\ seen.label = Some("xuexi")
    /\ currentTaskType = DefaultTaskType
    /\ tasks # << >>
    /\ tasks[1].pc = "syncSet"
    /\ tasks[1].ok
    /\ syncHistory = <<Val(tasks[1].rec)>>
    /\ syncHistory[1].type = DefaultTaskType

----------------------------------------------------------------------------

(* C39: a record is written to a history only by the completion of a work   *)
(* phase in which startTimer has run; the completion of a work phase that   *)
(* was never started appends no record.                                     *)
C39_OnlyStartedWork ==
    [][\A i \in DOMAIN tasks :
         (SyncWrite(i) \/ LocalWrite(i)) => Val(tasks[i].at).ran]_vars

(* On a fresh install, with the timer never started, SKIP_PHASE has         *)
(* completed the work phase and its record is in the sync store             *)
C39_Witness ==
    /\ kills = 0
    /\ tasks # << >>
    /\ tasks[1].src = "skip"
    /\ tasks[1].pc = "syncSet"
    /\ tasks[1].ok
    /\ ~Val(tasks[1].at).ran
    /\ localTimerState = None
    /\ syncHistory = <<Val(tasks[1].rec)>>

----------------------------------------------------------------------------

(* C34: the notification of a completion names, as the phase that ended,    *)
(* the phase the completion was called for and the phase its transition     *)
(* leaves, and as the phase that begins the phase its transition enters.    *)
C34_NoticeIsTransition ==
    [][\A i \in DOMAIN tasks :
         AfterNotify(i) =>
            /\ IsSome(tasks[i].says)
            /\ Val(tasks[i].says).ended = Val(tasks[i].at).phase
            /\ Val(tasks[i].says).ended = timerState.currentPhase
            /\ Val(tasks[i].says).begins = timerState'.currentPhase]_vars

(* A completion that announced the short break after the work phase is     *)
(* suspended at its notification while the timer is already in the short   *)
(* break: its transition will enter the work phase                          *)
C34_Witness ==
    \E i \in DOMAIN tasks :
       /\ tasks[i].pc = "notify"
       /\ tasks[i].says = Some([ended |-> "work", begins |-> "short-break"])
       /\ timerState.currentPhase = "short-break"

----------------------------------------------------------------------------

(* C36: one work phase yields at most one record, also when completions     *)
(* overlap.  From empty histories and with no reset, in cycle c the timer   *)
(* has entered c work phases, so the two histories together never hold      *)
(* more than c records.                                                     *)
C36_OneRecordPerWork ==
    Len(syncHistory) + Len(localHistory) <= timerState.currentCycle

(* The timer is still in its first work phase and the sync store holds two  *)
(* records, both of that phase                                              *)
C36_Witness ==
    /\ timerState.currentPhase = "work"
    /\ timerState.currentCycle = 1
    /\ Len(syncHistory) = 2
    /\ seen.appended = 2

----------------------------------------------------------------------------

(* The records of the history h *)
Records(h) == {h[k] : k \in DOMAIN h}

(* C37: the list that answers GET_HISTORY or EXPORT_HISTORY holds every     *)
(* record that either store holds, whichever storage calls have failed.     *)
C37_HistoryComplete ==
    [][(Responds /\ port'.last[1].to \in HistoryTypes)
          => Records(syncHistory) \cup Records(localHistory)
                \subseteq Records(port'.last[1].value)]_vars

(* The first work phase was completed and its record written to the sync    *)
(* store; the local store holds an earlier record, and GET_HISTORY has been *)
(* answered with the sync list alone                                        *)
C37_Witness ==
    /\ fails = 0
    /\ localHistory = <<Earlier(1)>>
    /\ Len(syncHistory) = 1
    /\ syncHistory # localHistory
    /\ port.last = <<Reply("GET_HISTORY", "history", syncHistory)>>

----------------------------------------------------------------------------

(* C33: timeRemaining is a whole number of seconds, zero or more, in every  *)
(* reachable state, in memory and in the stored timer state.                *)
C33_TimeRemainingNatural ==
    /\ timerState.timeRemaining \in Nat
    /\ IsSome(localTimerState) => Val(localTimerState).timeRemaining \in Nat

(* UPDATE_SETTINGS gave a negative work duration and RESET_TIMER has been   *)
(* answered: the stopped timer has a negative timeRemaining, stored as well *)
C33_Witness ==
    /\ port.last = <<Success("RESET_TIMER")>>
    /\ settings.workDuration < 0
    /\ syncSettings = Some(settings)
    /\ ~timerState.isRunning
    /\ timerState.timeRemaining = settings.workDuration * SecPerMin
    /\ localTimerState = Some(timerState)

====
